---- MODULE Spec2Model ----
(***************************************************************************)
(* A model of the floppy-disk storage core of Clock Signal (CLK):          *)
(*   - Storage::Time, a rational length/clock_rate;                        *)
(*   - PCMSegmentEventSource, which turns a bit vector into track events;  *)
(*   - TimedEventLoop, the integer-cycle + fractional-subcycle scheduler;  *)
(*   - Drive, which rotates a track under a head and debounces "ready".    *)
(*                                                                         *)
(* The specifications of the module:                                       *)
(*   SpecSeg  - one PCMSegmentEventSource driven by reset / get_next_event *)
(*              / seek_to;                                                 *)
(*   SpecLoop - one TimedEventLoop whose subclass schedules intervals of   *)
(*              its own choosing;                                          *)
(*   Spec     - a Drive (which is a TimedEventLoop) driven by its owner;   *)
(*   SpecCopy - an event source and a copy of it, read and written;        *)
(*   SpecHead - a Drive with an observer attached, its head moved about;   *)
(*   SpecEnc  - an MFM encoder fed bytes;                                  *)
(*   SpecTrack - a call of GetFMTrackWithSectors or GetMFMTrackWithSectors, *)
(*              and the track read back;                                   *)
(*   SpecWrite - a Drive that is run and written to once;                  *)
(*   SpecObs  - two Drives called alike, one with an activity observer;    *)
(*   SpecClock - a HalfClockReceiver run in half cycles;                   *)
(*   SpecFly  - a Flywheel asked for events and given them back;           *)
(*   SpecNotify - a Drive writing, and what its delegate is told;          *)
(*   SpecDisk - a Drive and the disk it reads and writes.                  *)
(*   SpecPair - two Drives given the same calls.                           *)
(***************************************************************************)
EXTENDS Integers, Sequences, FiniteSets, TLC

VARIABLES
    \* ---- PCMSegmentEventSource (SpecSeg) ----
    source,     \* the event source: segment_, bit_pointer_, next_event_
    call,       \* the most recent call made on the source and what it returned
    prev,       \* the seek_to call that the get_next_event in `call` directly followed, if any
    origin,     \* the call that started the current enumeration (construction, reset or seek_to)
    elapsed,    \* the time origin started at plus the lengths of the events returned since
    holes,      \* IndexHole events returned since the last reset / seek_to (0, 1, 2 = many)
    \* ---- TimedEventLoop under a subclass that schedules arbitrary intervals (SpecLoop) ----
    tel,        \* the loop: input_clock_rate_, cycles_until_event_, subcycles_until_event_
    telrun,     \* the run_for call in progress: pc, cycles, remaining_cycles, cycles_advanced
    teltime,    \* since_event: cycles advanced since the last process_next_event (or reset);
                \* scheduled: the integer countdown scheduled since then;
                \* fired: what both were when run_for last invoked process_next_event
    telsum,     \* since construction or reset_timer: calls of set_next_event_time_interval,
                \* the exact sum of their intervals, the integer cycles they added, and
                \* whether every floating-point operation so far was exact
    \* ---- Drive (Spec) ----
    drive,      \* the drive: its fields, those of its TimedEventLoop among them
    drun,       \* the Drive::run_for call in progress: pc, cycles, number_of_cycles
    dloop,      \* the TimedEventLoop::run_for call it has made, as telrun
    watch,      \* what the event delegate has seen: the cycles it was advanced by in
                \* the run_for in progress, and the IndexHole events processed since the
                \* motor was last switched on (0, 1, 2 = many); and the number of
                \* operations other than run_for called so far
    \* ---- an event source and a copy of it (SpecCopy) ----
    segments,   \* the heap of PCMSegments: segments[a] is the segment at address a
    original,   \* an event source; its segment_ is an address in segments
    copy,       \* the source copy-constructed from original (segment_ = 0 before that)
    copycall,   \* the most recent call made on either: its name and which source took it
    \* ---- a Drive with an activity observer attached (SpecHead, with drive and watch) ----
    announced,  \* the drive events the most recent call announced to the observer
    headcall,   \* the most recent call: its name, its argument, the head position before
    \* ---- an MFM encoder fed bytes (SpecEnc) ----
    encoder,    \* the encoder: target_, last_output_, crc_generator_
    enclog,     \* first: the shorts in the target before the first add_byte;
                \* bytes: the number of add_byte calls made
    \* ---- a call of GetFMTrackWithSectors or GetMFMTrackWithSectors (SpecTrack) ----
    request,    \* its arguments: the encoding, the sectors, the sector gap length
    shifter,    \* the encoder GetTrackWithSectors makes and feeds
    built,      \* pc: where the call stands; next: the sector its loop is at;
                \* segment: the segment it makes the track of, once made
    \* ---- a Drive that is written to (SpecWrite, with drive, drun, dloop and watch) ----
    stored,     \* the track end_writing had the disk store for the current address
    written,    \* pc: whether writing has begun, or ended; and, once ended, what
                \* end_writing found: the address, the start time, the segment, the
                \* clamp and the track_ of the drive
    \* ---- two Drives called alike, one with an activity observer (SpecObs, with
    \*      drive, drun, dloop and watch for the one that has the observer) ----
    observer,   \* observer_ and announce_motor_led_ of the drive, and what the most
                \* recent call told the observer
    twin,       \* the drive with no observer: its fields, its run_for calls in progress
                \* and the events its delegate was given in the current run_for
    delivered,  \* the events the delegate of the drive with the observer was given in
                \* the current run_for
    \* ---- a HalfClockReceiver run in half cycles (SpecClock) ----
    receiver,   \* half_cycles_: the half cycles it holds back; log: for each call of
                \* run_for(HalfCycles) so far, what it was given and what it forwarded
    \* ---- a Flywheel asked for events and given them back (SpecFly) ----
    flywheel,   \* the flywheel: its fields
    flycall,    \* the most recent get_next_event_in_period: its arguments, the event
                \* and the cycles_advanced it gave, and whether apply_event has been
                \* called with them; syncs: the synchronisation requests so far
    \* ---- a Drive writing, and what its delegate is told (SpecNotify, with drive,
    \*      drun, dloop and watch) ----
    pending,    \* bits: the bits queued by write_bit since process_write_completed()
                \* was last called; ran: the cycles run_for has set out to run since
                \* the first of them was queued; notified: the calls of
                \* process_write_completed() since; at: ran when the first was made
    \* ---- a Drive and the disk it reads and writes (SpecDisk, with drive, drun and
    \*      dloop) ----
    platter,    \* the tracks the disk has been given by set_track_at_position, by
                \* their addresses <<head, position>>
    seen,       \* what has gone on that the drive keeps no account of.  moved: the
                \* call by which the owner changed the disk, the motor or the head;
                \* begun: whether the owner has begun to write; fetched, noise:
                \* whether current_event_ came from get_next_event, and as a noise
                \* pulse; holes: the track's index holes processed since the
                \* motor was switched on (2 = many), and
                \* strays: the events processed since then that were never fetched;
                \* since_hole: the cycles advanced since the last index hole of a
                \* track was processed; kept_from_writer, given_to_writer: the types
                \* of the events processed while writing that the delegate was not
                \* given, and was given
    \* ---- two Drives given the same calls (SpecPair) ----
    pair        \* a, b: the two drives; bit_a, bit_b: what the randomiser of each
                \* gave for the later bits of its random source; now: the cycles
                \* run_for has been called for; fetched_a, fetched_b: for each
                \* drive, the cycle count at which get_next_event() fetched each
                \* event of a track; heads: the calls of set_head made

segVars == <<source, call, prev, origin, elapsed, holes>>
loopVars == <<tel, telrun, teltime, telsum>>
driveVars == <<drive, drun, dloop, watch>>

copyVars == <<segments, original, copy, copycall>>

headVars == <<announced, headcall>>

encVars == <<encoder, enclog>>

trackVars == <<request, shifter, built>>

writeVars == <<stored, written>>

obsVars == <<observer, twin, delivered>>

clockVars == <<receiver>>

flyVars == <<flywheel, flycall>>

notifyVars == <<pending>>

diskVars == <<platter, seen>>

pairVars == <<pair>>

vars == <<segVars, loopVars, driveVars, copyVars, headVars, encVars, trackVars, writeVars, obsVars, clockVars, flyVars, notifyVars, diskVars, pairVars>>

----------------------------------------------------------------------------
(* Bounds of the model.                                                    *)

\* The longest bit vector a segment holds.
MaxBits == 3
\* Seek times are k / c for k in 0 .. MaxSeekNumerator and c in SeekClockRates.
MaxSeekNumerator == 7
\* Significand bits of the model's floating-point numbers (a double carries 53,
\* more than the model checker's integers can hold).
MantissaBits == 9
\* SpecEnc: the most bytes given to add_byte.
MaxBytes == 3
\* SpecTrack: the most sectors given to GetFMTrackWithSectors and
\* GetMFMTrackWithSectors.
MaxSectors == 2
\* SpecLoop: the longest run_for, and the number of intervals scheduled per timer reset.
MaxRun == 3
MaxCalls == 3
\* Spec: the longest run_for, and the number of operations other than run_for
\* that are called on the drive.
MaxCycles == 2
MaxOperations == 4
MaxHalfCycles == 5
MaxSyncs == 17
MaxWritingCycles == 8

----------------------------------------------------------------------------
(* Storage::Time: a rational length / clock_rate.                          *)

Time(length, clock_rate) == [length |-> length, clock_rate |-> clock_rate]

TimeZero == Time(0, 1)

RECURSIVE GCD(_, _)
GCD(a, b) == IF b = 0 THEN a ELSE GCD(b, a % b)

\* Time::simplify(): divide both terms by their greatest common divisor.
TimeSimplify(t) ==
    LET g == GCD(t.length, t.clock_rate)
    IN  IF g = 0 THEN t ELSE Time(t.length \div g, t.clock_rate \div g)

\* Comparisons and sums bring both terms to the least common clock rate.
TimeOver(a, b) == b.clock_rate \div GCD(a.clock_rate, b.clock_rate)

TimeLT(a, b) == a.length * TimeOver(a, b) < b.length * TimeOver(b, a)
TimeLE(a, b) == a.length * TimeOver(a, b) <= b.length * TimeOver(b, a)
TimeEQ(a, b) == a.length * TimeOver(a, b) = b.length * TimeOver(b, a)
TimeGE(a, b) == TimeLE(b, a)
TimeGT(a, b) == TimeLT(b, a)

TimeAdd(a, b) ==
    IF a.clock_rate = b.clock_rate
    THEN TimeSimplify(Time(a.length + b.length, a.clock_rate))
    ELSE TimeSimplify(Time(a.length * TimeOver(a, b) + b.length * TimeOver(b, a),
                           a.clock_rate * TimeOver(a, b)))

TimeSub(a, b) ==
    IF a.clock_rate = b.clock_rate
    THEN TimeSimplify(Time(a.length - b.length, a.clock_rate))
    ELSE TimeSimplify(Time(a.length * TimeOver(a, b) - b.length * TimeOver(b, a),
                           a.clock_rate * TimeOver(a, b)))

\* Time * unsigned int
TimeMulInt(a, n) == Time(a.length * n, a.clock_rate)

\* Time * Time and Time / Time
TimeMul(a, b) == Time(a.length * b.length, a.clock_rate * b.clock_rate)
TimeDiv(a, b) == Time(a.length * b.clock_rate, a.clock_rate * b.length)

\* Time::get<unsigned int>(): the whole part.
TimeGetInt(a) == a.length \div a.clock_rate

----------------------------------------------------------------------------
(* PCMSegment and PCMSegmentEventSource.                                   *)
(*                                                                         *)
(* next_event_.length.length is an unsigned int.  get_next_event() starts  *)
(* it at -(length_of_a_bit.length >> 1), which wraps to 2^32 - half, and   *)
(* then adds to it modulo 2^32.  The model keeps such a value as the       *)
(* two's-complement integer with the same bit pattern (-half), so that the *)
(* additions modulo 2^32 are plain additions; EventLengthInRange checks    *)
(* that every value handed back to a caller is a genuine (unwrapped) one.  *)

IndexHole == "IndexHole"
FluxTransition == "FluxTransition"

PCMSegment(data, length_of_a_bit) == [data |-> data, length_of_a_bit |-> length_of_a_bit]

\* data.size()
Size(s) == Len(s.segment_.data)

\* x >> 1 of a non-negative x
ShiftRight1(x) == x \div 2

\* PCMSegmentEventSource::reset()
PCMSegmentEventSource_reset(s) ==
    [s EXCEPT !.bit_pointer_ = 0, !.next_event_.type = FluxTransition]

\* PCMSegmentEventSource::PCMSegmentEventSource(const PCMSegment &)
PCMSegmentEventSource_new(segment) ==
    LET lob == segment.length_of_a_bit
        adjusted == IF lob.length % 2 = 1
                    THEN Time(lob.length * 2, lob.clock_rate * 2)
                    ELSE lob
    IN  PCMSegmentEventSource_reset(
            [segment_    |-> PCMSegment(segment.data, adjusted),
             bit_pointer_ |-> 0,
             next_event_ |-> [type |-> FluxTransition, length |-> Time(0, adjusted.clock_rate)]])

\* The while loop of get_next_event(): s is the source during the loop.  The
\* result carries returned = TRUE when the loop left through `return next_event_`.
RECURSIVE PCMSegmentEventSource_scan(_)
PCMSegmentEventSource_scan(s) ==
    IF s.bit_pointer_ < Size(s)
    THEN LET bit == s.segment_.data[s.bit_pointer_ + 1]
             t   == [s EXCEPT !.bit_pointer_ = @ + 1,
                              !.next_event_.length.length = @ + s.segment_.length_of_a_bit.length]
         IN  IF bit = 1 THEN [src |-> t, returned |-> TRUE]
                        ELSE PCMSegmentEventSource_scan(t)
    ELSE [src |-> s, returned |-> FALSE]

\* A get_next_event() that grants the closing half bit only when it started
\* strictly inside the data (initial_bit_pointer < size instead of <=).
PCMSegmentEventSource_get_next_event_strict(s) ==
    LET initial_bit_pointer == s.bit_pointer_
        half    == ShiftRight1(s.segment_.length_of_a_bit.length)
        started == [s EXCEPT !.next_event_.length.length =
                                IF s.bit_pointer_ # 0 THEN 0 ELSE -half]
        looped  == PCMSegmentEventSource_scan(started)
        holed   == [looped.src EXCEPT !.next_event_.type = IndexHole]
        final   == IF initial_bit_pointer < Size(s)
                   THEN [holed EXCEPT !.next_event_.length.length = @ + half,
                                      !.bit_pointer_ = @ + 1]
                   ELSE holed
        after   == IF looped.returned THEN looped.src ELSE final
    IN  [src |-> after, event |-> after.next_event_]

\* A get_next_event() that grants the closing half bit on every exhausted read.
PCMSegmentEventSource_get_next_event_regrant(s) ==
    LET half    == ShiftRight1(s.segment_.length_of_a_bit.length)
        started == [s EXCEPT !.next_event_.length.length =
                                IF s.bit_pointer_ # 0 THEN 0 ELSE -half]
        looped  == PCMSegmentEventSource_scan(started)
        holed   == [looped.src EXCEPT !.next_event_.type = IndexHole]
        final   == [holed EXCEPT !.next_event_.length.length = @ + half,
                                 !.bit_pointer_ = IF @ <= Size(s) THEN @ + 1 ELSE @]
        after   == IF looped.returned THEN looped.src ELSE final
    IN  [src |-> after, event |-> after.next_event_]

\* PCMSegmentEventSource::get_next_event(): the source afterwards and the event returned.
PCMSegmentEventSource_get_next_event(s) ==
    LET initial_bit_pointer == s.bit_pointer_
        half    == ShiftRight1(s.segment_.length_of_a_bit.length)
        started == [s EXCEPT !.next_event_.length.length =
                                IF s.bit_pointer_ # 0 THEN 0 ELSE -half]
        looped  == PCMSegmentEventSource_scan(started)
        holed   == [looped.src EXCEPT !.next_event_.type = IndexHole]
        final   == IF initial_bit_pointer <= Size(s)
                   THEN [holed EXCEPT !.next_event_.length.length = @ + half,
                                      !.bit_pointer_ = @ + 1]
                   ELSE holed
        after   == IF looped.returned THEN looped.src ELSE final
    IN  [src |-> after, event |-> after.next_event_]

\* PCMSegmentEventSource::get_length()
PCMSegmentEventSource_get_length(s) ==
    TimeMulInt(s.segment_.length_of_a_bit, Size(s))

\* A seek_to() that leaves bit_pointer_ on the bit reached, not one beyond it.
PCMSegmentEventSource_seek_to_on_bit(s, time_from_start) ==
    LET length == PCMSegmentEventSource_get_length(s)
        lob    == s.segment_.length_of_a_bit
        half_bit_length == Time(ShiftRight1(lob.length), lob.clock_rate)
        flux   == [s EXCEPT !.next_event_.type = FluxTransition]
        relative_time == TimeSub(time_from_start, half_bit_length)
        reached == TimeGetInt(TimeDiv(relative_time, lob))
    IN  IF TimeGE(time_from_start, length)
        THEN [src |-> [s EXCEPT !.next_event_.type = IndexHole,
                                !.bit_pointer_ = Size(s) + 1],
              time |-> length]
        ELSE IF TimeLT(time_from_start, half_bit_length)
        THEN [src |-> [flux EXCEPT !.bit_pointer_ = 0], time |-> TimeZero]
        ELSE [src |-> [flux EXCEPT !.bit_pointer_ = reached],
              time |-> TimeAdd(half_bit_length, TimeMulInt(lob, reached))]

\* A seek_to() that forgets the half bit before bit zero when it counts the bits in.
PCMSegmentEventSource_seek_to_no_half(s, time_from_start) ==
    LET length == PCMSegmentEventSource_get_length(s)
        lob    == s.segment_.length_of_a_bit
        half_bit_length == Time(ShiftRight1(lob.length), lob.clock_rate)
        flux   == [s EXCEPT !.next_event_.type = FluxTransition]
        pointer == 1 + TimeGetInt(TimeDiv(time_from_start, lob))
    IN  IF TimeGE(time_from_start, length)
        THEN [src |-> [s EXCEPT !.next_event_.type = IndexHole,
                                !.bit_pointer_ = Size(s) + 1],
              time |-> length]
        ELSE IF TimeLT(time_from_start, half_bit_length)
        THEN [src |-> [flux EXCEPT !.bit_pointer_ = 0], time |-> TimeZero]
        ELSE [src |-> [flux EXCEPT !.bit_pointer_ = pointer],
              time |-> TimeAdd(half_bit_length, TimeMulInt(lob, pointer - 1))]

\* PCMSegmentEventSource::seek_to(): the source afterwards and the time returned.
PCMSegmentEventSource_seek_to(s, time_from_start) ==
    LET length == PCMSegmentEventSource_get_length(s)
        lob    == s.segment_.length_of_a_bit
        half_bit_length == Time(ShiftRight1(lob.length), lob.clock_rate)
        flux   == [s EXCEPT !.next_event_.type = FluxTransition]
        relative_time == TimeSub(time_from_start, half_bit_length)
        pointer == 1 + TimeGetInt(TimeDiv(relative_time, lob))
    IN  IF TimeGE(time_from_start, length)
        THEN [src |-> [s EXCEPT !.next_event_.type = IndexHole,
                                !.bit_pointer_ = Size(s) + 1],
              time |-> length]
        ELSE IF TimeLT(time_from_start, half_bit_length)
        THEN [src |-> [flux EXCEPT !.bit_pointer_ = 0], time |-> TimeZero]
        ELSE [src |-> [flux EXCEPT !.bit_pointer_ = pointer],
              time |-> TimeAdd(half_bit_length, TimeMulInt(lob, pointer - 1))]

----------------------------------------------------------------------------
(* Floating point.  A double is modelled as the exact rational num / den   *)
(* (den a power of two, in lowest terms) it stands for; every arithmetic   *)
(* result is rounded to MantissaBits significant bits, to nearest, ties to *)
(* even.  Conversions from unsigned int are exact, as they are for double. *)

RECURSIVE Pow2(_)
Pow2(k) == IF k = 0 THEN 1 ELSE 2 * Pow2(k - 1)

Double(num, den) ==
    LET g == GCD(num, den)
    IN  IF num = 0 THEN [num |-> 0, den |-> 1] ELSE [num |-> num \div g, den |-> den \div g]

\* n / d to the nearest integer, ties to even.
RoundHalfEven(n, d) ==
    LET m == n \div d
        r == n % d
    IN  IF 2 * r > d \/ (2 * r = d /\ m % 2 = 1) THEN m + 1 ELSE m

\* Long division of n by d, a binary place at a time, until the quotient has
\* MantissaBits significant bits: q is the quotient so far, r the remainder
\* and k the number of places after the binary point.
RECURSIVE FpDivide(_, _, _, _)
FpDivide(q, r, d, k) ==
    IF q >= Pow2(MantissaBits - 1)
    THEN [q |-> q, r |-> r, k |-> k]
    ELSE FpDivide(2 * q + (IF 2 * r >= d THEN 1 ELSE 0), (2 * r) % d, d, k + 1)

\* The least j >= 0 with n < d * 2^(MantissaBits + j).
RECURSIVE FpScaleDown(_, _, _)
FpScaleDown(n, d, j) ==
    IF (n \div d) \div Pow2(j) < Pow2(MantissaBits) THEN j ELSE FpScaleDown(n, d, j + 1)

\* The rational n / d (n >= 0, d > 0) rounded to a floating-point number.
FpRound(n, d) ==
    IF n = 0 THEN Double(0, 1)
    ELSE LET j == FpScaleDown(n, d, 0)
             l == FpDivide(n \div d, n % d, d, 0)
             up == 2 * l.r > d \/ (2 * l.r = d /\ l.q % 2 = 1)
         IN  IF j > 0 THEN Double(RoundHalfEven(n, d * Pow2(j)) * Pow2(j), 1)
                      ELSE Double(l.q + (IF up THEN 1 ELSE 0), Pow2(l.k))

\* double * double and double + double, for a whole-numbered right-hand factor.
FpMulInt(a, n) == FpRound(a.num * n, a.den)
FpAdd(a, b) ==
    LET den == IF a.den > b.den THEN a.den ELSE b.den
    IN  FpRound(a.num * (den \div a.den) + b.num * (den \div b.den), den)

\* static_cast<int>(double) and fmod(double, 1.0), both exact, for a double >= 0.
FpToInt(a) == a.num \div a.den
FpMod1(a) == Double(a.num % a.den, a.den)

\* Time::get<double>(): length / clock_rate in floating point.
TimeGetDouble(t) == FpRound(t.length, t.clock_rate)

----------------------------------------------------------------------------
(* TimedEventLoop.  A loop is a record of its three fields; a Drive, which *)
(* is a TimedEventLoop, carries the same fields among its own.             *)

\* TimedEventLoop::TimedEventLoop(input_clock_rate)
TimedEventLoop_new(input_clock_rate) ==
    [input_clock_rate_ |-> input_clock_rate,
     cycles_until_event_ |-> 0,
     subcycles_until_event_ |-> Double(0, 1)]

\* TimedEventLoop::get_cycles_until_next_event()
TimedEventLoop_get_cycles_until_next_event(t) ==
    IF t.cycles_until_event_ > 0 THEN t.cycles_until_event_ ELSE 0

\* TimedEventLoop::reset_timer()
TimedEventLoop_reset_timer(t) ==
    [t EXCEPT !.subcycles_until_event_ = Double(0, 1), !.cycles_until_event_ = 0]

\* The double_interval of set_next_event_time_interval():
\* [interval] * [input clock rate] + [subcycles until this event].
TimedEventLoop_double_interval(t, interval) ==
    FpAdd(FpMulInt(TimeGetDouble(interval), t.input_clock_rate_), t.subcycles_until_event_)

\* A set_next_event_time_interval that forgets the fraction of a cycle carried over.
TimedEventLoop_set_next_event_time_interval_uncarried(t, interval) ==
    LET double_interval == FpMulInt(TimeGetDouble(interval), t.input_clock_rate_)
        addition == FpToInt(double_interval)
    IN  [t EXCEPT !.cycles_until_event_ = @ + addition,
                  !.subcycles_until_event_ = FpMod1(double_interval)]

\* TimedEventLoop::set_next_event_time_interval(interval)
TimedEventLoop_set_next_event_time_interval(t, interval) ==
    LET double_interval == TimedEventLoop_double_interval(t, interval)
        addition == FpToInt(double_interval)
    IN  [t EXCEPT !.cycles_until_event_ = @ + addition,
                  !.subcycles_until_event_ = FpMod1(double_interval)]

(* A call of TimedEventLoop::run_for is a record: pc ("loop" while the call *)
(* is in its while loop, "idle" once it has returned), cycles (the         *)
(* argument), remaining_cycles and cycles_advanced (its two locals), and   *)
(* advanced, the total of the cycle counts the call has passed to the      *)
(* virtual advance().                                                      *)

NoRun == [pc |-> "idle", cycles |-> 0, remaining_cycles |-> 0, cycles_advanced |-> 0,
          advanced |-> 0]

(* What an observer of the loop keeps: in teltime, the cycles advanced     *)
(* since the last event (since_event), the whole countdown scheduled for   *)
(* the next one (scheduled), both as they were when run_for last called    *)
(* process_next_event() (fired), and the last operation (op); in telsum,   *)
(* since the last reset_timer(), the number of calls of                    *)
(* set_next_event_time_interval (calls), the exact sum of their intervals  *)
(* (intervals), the whole cycles they added (additions) and whether every  *)
(* floating-point operation in them was exact (exact).                     *)

NoFire == [valid |-> FALSE, since_event |-> 0, scheduled |-> 0]
NoTime == [since_event |-> 0, scheduled |-> 0, fired |-> NoFire, op |-> "new"]
NoSum  == [calls |-> 0, intervals |-> TimeZero, additions |-> 0, exact |-> TRUE]

\* A run_for(cycles) call as it starts.
TimedEventLoop_run_for_begin(cycles) ==
    [pc |-> "loop", cycles |-> cycles, remaining_cycles |-> cycles, cycles_advanced |-> 0,
     advanced |-> 0]

\* A run_for loop that overlooks an event due exactly at the end of the run.
TimedEventLoop_run_for_event_due_strictly(t, remaining_cycles) ==
    t.cycles_until_event_ < remaining_cycles

\* TimedEventLoop::run_for, the loop condition: an event is due within the cycles left.
TimedEventLoop_run_for_event_due(t, remaining_cycles) ==
    t.cycles_until_event_ <= remaining_cycles

\* TimedEventLoop::run_for, the loop body before process_next_event(): the run
\* advances by cycles_until_event_, which then is 0.
TimedEventLoop_run_for_to_event(t, r) ==
    [loop |-> [t EXCEPT !.cycles_until_event_ = 0],
     run  |-> [r EXCEPT !.cycles_advanced = @ + t.cycles_until_event_,
                        !.advanced = @ + t.cycles_until_event_,
                        !.remaining_cycles = @ - t.cycles_until_event_],
     advance |-> t.cycles_until_event_]

\* A run_for that takes the cycles left over off the countdown without advancing by them.
TimedEventLoop_run_for_remainder_dropped(t, r) ==
    IF r.remaining_cycles # 0
    THEN [loop |-> [t EXCEPT !.cycles_until_event_ = @ - r.remaining_cycles],
          run  |-> [r EXCEPT !.remaining_cycles = 0, !.pc = "idle"],
          advance |-> -1]
    ELSE [loop |-> t, run |-> [r EXCEPT !.pc = "idle"], advance |-> -1]

\* TimedEventLoop::run_for, after the loop: the cycles left over are taken off
\* the countdown and advanced, and the call returns (advance is -1 when
\* advance() is not called).
TimedEventLoop_run_for_remainder(t, r) ==
    IF r.remaining_cycles # 0
    THEN [loop |-> [t EXCEPT !.cycles_until_event_ = @ - r.remaining_cycles],
          run  |-> [r EXCEPT !.cycles_advanced = @ + r.remaining_cycles,
                             !.advanced = @ + r.remaining_cycles,
                             !.remaining_cycles = 0, !.pc = "idle"],
          advance |-> r.remaining_cycles]
    ELSE [loop |-> t, run |-> [r EXCEPT !.pc = "idle"], advance |-> -1]

----------------------------------------------------------------------------
(* Tracks.  A track is a record of its kind and, for a PCMTrack of one     *)
(* segment, its event source; a null shared_ptr<Track> is NullTrack.       *)

NoSource == PCMSegmentEventSource_new(PCMSegment(<<>>, Time(1, 1)))

NullTrack == [kind |-> "nullptr", source |-> NoSource]

\* UnformattedTrack: nothing but an index hole, once per rotation.
UnformattedTrack_new == [kind |-> "UnformattedTrack", source |-> NoSource]
UnformattedTrack_get_next_event(track) ==
    [track |-> track, event |-> [type |-> IndexHole, length |-> Time(1, 1)]]
UnformattedTrack_seek_to(track, time_since_index_hole) ==
    [track |-> track, time |-> TimeZero]

\* PCMTrack::PCMTrack(const PCMSegment &): a single segment fills the track,
\* so each of its bits lasts 1 / data.size() of a rotation.
PCMTrack_new(data) ==
    [kind |-> "PCMTrack",
     source |-> PCMSegmentEventSource_new(PCMSegment(data, Time(1, Len(data))))]

\* PCMTrack::get_next_event() on one segment: the segment's next event; when
\* that is the index hole which ends the segment, the segment starts afresh.
PCMTrack_get_next_event(track) ==
    LET r == PCMSegmentEventSource_get_next_event(track.source)
    IN  [track |-> [track EXCEPT !.source =
                        IF r.event.type = IndexHole
                        THEN PCMSegmentEventSource_reset(r.src) ELSE r.src],
         event |-> r.event]

\* PCMTrack::seek_to() on one segment: the segment completes the seek.
PCMTrack_seek_to(track, time_since_index_hole) ==
    LET r == PCMSegmentEventSource_seek_to(track.source, time_since_index_hole)
    IN  [track |-> [track EXCEPT !.source = r.src], time |-> r.time]

\* Track::get_next_event() and Track::seek_to(), by the kind of track.
Track_get_next_event(track) ==
    IF track.kind = "PCMTrack" THEN PCMTrack_get_next_event(track)
                               ELSE UnformattedTrack_get_next_event(track)
Track_seek_to(track, time_since_index_hole) ==
    IF track.kind = "PCMTrack" THEN PCMTrack_seek_to(track, time_since_index_hole)
                               ELSE UnformattedTrack_seek_to(track, time_since_index_hole)

\* HeadPosition(value): a head position in quarter tracks.
HeadPosition(value) == value * 4

\* HeadPosition(value, scale): value at scale ticks per track, scale 1, 2 or 4.
HeadPositionAt(value, scale) == value * (4 \div scale)

\* A PCMTrack that PCMTrack::resampled_clone made, or one made from such a one.
IsResampledClone(track) == "is_resampled_clone" \in DOMAIN track

\* The greatest number that divides g and every place of places.
RECURSIVE GCDOver(_, _)
GCDOver(places, g) ==
    IF places = {} THEN g
    ELSE LET p == CHOOSE q \in places : TRUE
         IN  GCDOver(places \ {p}, GCD(g, p))

\* The events of a resampled clone of bits_per_track places, those of flux set:
\* the clone is one segment, which is read at the coarsest resolution that
\* holds every one of its transitions, from the index hole.
PCMTrack_resampled_events(track) ==
    LET g == GCDOver(track.flux, track.bits_per_track)
        size == track.bits_per_track \div g
        data == [i \in 1 .. size |-> IF (i - 1) * g \in track.flux THEN 1 ELSE 0]
    IN  [track EXCEPT !.source =
            PCMSegmentEventSource_new(PCMSegment(data, Time(1, size)))]

\* Disk::set_track_at_position(address, track): the tracks the disk has been
\* given, given this one too.
Disk_set_track_at_position(given, head, position, track) ==
    [address \in DOMAIN given \cup {<<head, position>>} |->
        IF address = <<head, position>> THEN track ELSE given[address]]

\* The disks the drive is given.  Disk 1 holds a PCM track at each of head
\* 0's first two positions and nothing anywhere else, until it is given
\* tracks of its own; 0 stands for no disk.
Disk_get_track_at_position(disk, head, position) ==
    IF disk = 1 /\ <<head, position>> \in DOMAIN platter
    THEN PCMTrack_resampled_events(platter[<<head, position>>])
    ELSE IF disk = 1 /\ head = 0 /\ position = HeadPosition(0) THEN PCMTrack_new(<<1, 0, 1, 1>>)
    ELSE IF disk = 1 /\ head = 0 /\ position = HeadPosition(1) THEN PCMTrack_new(<<0, 1, 0, 0>>)
    ELSE NullTrack

----------------------------------------------------------------------------
(* Drive.  A drive is a record of its fields, those of its TimedEventLoop  *)
(* base among them.  random_source_ keeps the low bit of the 64-bit word   *)
(* only: each rotation of the word brings up a bit that the seed chose,    *)
(* which is an input of the operation that rotates.  failed_assertion is   *)
(* not a field of the class: it names the assert() that has stopped the    *)
(* program, if one has.                                                    *)

\* Drive::Drive(input_clock_rate, revolutions_per_minute, number_of_heads).
\* current_event_.type has no initialiser: it starts as whatever was in memory.
Drive_new(input_clock_rate, revolutions_per_minute, number_of_heads, random_source, type) ==
    [input_clock_rate_ |-> input_clock_rate,
     cycles_until_event_ |-> 0,
     subcycles_until_event_ |-> Double(0, 1),
     rotational_multiplier_ |-> TimeSimplify(Time(60, revolutions_per_minute)),
     available_heads_ |-> number_of_heads,
     disk_ |-> 0,
     has_disk_ |-> FALSE,
     head_position_ |-> HeadPosition(0),
     head_ |-> 0,
     track_ |-> NullTrack,
     patched_track_ |-> NullTrack,
     motor_is_on_ |-> FALSE,
     ready_index_count_ |-> 0,
     is_reading_ |-> TRUE,
     clamp_writing_to_index_hole_ |-> FALSE,
     cycles_since_index_hole_ |-> 0,
     cycles_until_bits_written_ |-> TimeZero,
     cycles_per_bit_ |-> TimeZero,
     write_segment_ |-> PCMSegment(<<>>, TimeZero),
     write_start_time_ |-> TimeZero,
     current_event_ |-> [type |-> type, length |-> TimeZero],
     random_interval_ |-> TimeZero,
     random_source_ |-> random_source,
     failed_assertion |-> ""]

\* assert(condition): the program goes on if the condition holds and stops if not.
Asserted(d, condition, name) ==
    IF condition \/ d.failed_assertion # "" THEN d ELSE [d EXCEPT !.failed_assertion = name]

\* An invalidate_track that lets go of the patched track and keeps track_.
Drive_invalidate_track_keeping(d) == [d EXCEPT !.patched_track_ = NullTrack]

\* Drive::invalidate_track()
Drive_invalidate_track(d) == [d EXCEPT !.track_ = NullTrack, !.patched_track_ = NullTrack]

\* Drive::set_disk(disk)
Drive_set_disk(d, disk) ==
    Drive_invalidate_track([d EXCEPT !.disk_ = disk, !.has_disk_ = (disk # 0)])

\* A step that adds the offset and leaves the sum as it is.
Drive_step_unclamped(d, offset) ==
    LET head_position == d.head_position_ + offset
    IN  [d EXCEPT !.head_position_ = head_position,
                  !.track_ = IF head_position # d.head_position_ THEN NullTrack ELSE @]

\* Drive::step(offset)
Drive_step(d, offset) ==
    LET moved == d.head_position_ + offset
        head_position == IF moved < HeadPosition(0) THEN HeadPosition(0) ELSE moved
    IN  [d EXCEPT !.head_position_ = head_position,
                  !.track_ = IF head_position # d.head_position_ THEN NullTrack ELSE @]

\* What step(offset) announces to an activity observer that is attached, with
\* StepBelowZero also for a step that lands exactly on position zero.
Drive_step_announces_at_zero(d, offset) ==
    IF d.head_position_ + offset <= HeadPosition(0)
    THEN <<"StepBelowZero">> ELSE <<"StepNormal">>

\* Drive::step(offset): what it announces to an activity observer that is attached.
Drive_step_announces(d, offset) ==
    IF d.head_position_ + offset < HeadPosition(0)
    THEN <<"StepBelowZero">> ELSE <<"StepNormal">>

\* A set_head that keeps track_.
Drive_set_head_keeping(d, head) ==
    LET clamped == IF head < d.available_heads_ - 1 THEN head ELSE d.available_heads_ - 1
    IN  [d EXCEPT !.head_ = clamped]

\* Drive::set_head(head)
Drive_set_head(d, head) ==
    LET clamped == IF head < d.available_heads_ - 1 THEN head ELSE d.available_heads_ - 1
    IN  IF clamped # d.head_
        THEN [d EXCEPT !.head_ = clamped, !.track_ = NullTrack]
        ELSE d

\* Drive::preferred_clocking()
Drive_preferred_clocking(d) ==
    IF ~d.motor_is_on_ \/ ~d.has_disk_ THEN "None" ELSE "JustInTime"

\* A run_for that runs whenever the motor is on, a disk in or not.
Drive_run_for_runs_with_motor(d) == d.motor_is_on_

\* A run_for that runs whenever there is a disk, the motor on or off.
Drive_run_for_runs_with_disk(d) == d.has_disk_

\* Drive::run_for(cycles): the condition under which it does anything at all.
Drive_run_for_runs(d) == d.has_disk_ /\ d.motor_is_on_

\* Drive::get_time_into_track()
Drive_get_time_into_track(d) ==
    TimeSimplify(TimeDiv(Time(d.cycles_since_index_hole_, d.input_clock_rate_),
                         d.rotational_multiplier_))

\* Drive::get_is_ready()
Drive_get_is_ready(d) == d.ready_index_count_ = 2

\* A set_motor_on that leaves the ready count alone when the motor stops.
Drive_set_motor_on_keeping_ready(d, motor_is_on) ==
    IF d.motor_is_on_ # motor_is_on THEN [d EXCEPT !.motor_is_on_ = motor_is_on] ELSE d

\* Drive::set_motor_on(motor_is_on)
Drive_set_motor_on(d, motor_is_on) ==
    IF d.motor_is_on_ # motor_is_on
    THEN [d EXCEPT !.motor_is_on_ = motor_is_on,
                   !.ready_index_count_ = IF ~motor_is_on THEN 0 ELSE @]
    ELSE d

\* Drive::advance(cycles)
Drive_advance(d, cycles) == [d EXCEPT !.cycles_since_index_hole_ = @ + cycles]

\* Drive::get_track()
Drive_get_track(d) ==
    IF d.disk_ # 0 THEN Disk_get_track_at_position(d.disk_, d.head_, d.head_position_)
                   ELSE NullTrack

\* The gap after which the head's gain is turned up until it hears noise.
safe_gain_period == Time(15, 1000000)

\* Drive::get_next_event(duration_already_passed) and Drive::setup_track(),
\* which call each other; bit is the bit that rotating random_source_ brings up.
RECURSIVE Drive_get_next_event(_, _, _)
RECURSIVE Drive_setup_track(_, _)

Drive_get_next_event(d, duration_already_passed, bit) ==
    IF d.track_.kind = "nullptr"
    THEN Drive_setup_track([d EXCEPT !.random_interval_ = TimeZero], bit)
    ELSE IF TimeGT(d.random_interval_, TimeZero)
    THEN LET length == Time(2 + d.random_source_, 1000000)
             whole  == ~TimeLT(d.random_interval_, length)
             noise  == IF whole THEN length ELSE d.random_interval_
         IN  TimedEventLoop_set_next_event_time_interval(
                 [d EXCEPT !.current_event_ = [type |-> IndexHole, length |-> noise],
                           !.random_source_ = bit,
                           !.random_interval_ =
                                IF whole THEN TimeSub(@, length) ELSE TimeZero],
                 noise)
    ELSE LET r == Track_get_next_event(d.track_)
             length == r.event.length
             fetched == [d EXCEPT !.track_ = r.track, !.current_event_ = r.event]
             in_range == Asserted(fetched,
                                  TimeLE(length, Time(1, 1)) /\ TimeGE(length, TimeZero),
                                  "Drive.cpp:223")
             ahead == Asserted(in_range, TimeGT(length, duration_already_passed),
                               "Drive.cpp:224")
             interval == TimeMul(TimeSub(length, duration_already_passed),
                                 d.rotational_multiplier_)
             long == TimeGE(interval, safe_gain_period)
         IN  IF ahead.failed_assertion # "" THEN ahead
             ELSE TimedEventLoop_set_next_event_time_interval(
                      [ahead EXCEPT !.random_interval_ =
                            IF long THEN TimeSub(interval, safe_gain_period) ELSE @],
                      IF long THEN safe_gain_period ELSE interval)

Drive_setup_track(d, bit) ==
    LET on_disk == Drive_get_track(d)
        track == IF on_disk.kind = "nullptr" THEN UnformattedTrack_new ELSE on_disk
        track_time_now == Drive_get_time_into_track(d)
        checked == Asserted([d EXCEPT !.track_ = track],
                            TimeGE(track_time_now, TimeZero)
                                /\ TimeLE(d.current_event_.length, Time(1, 1)),
                            "Drive.cpp:272")
        found == Track_seek_to(track, track_time_now)
        offset == IF TimeLE(found.time, track_time_now)
                  THEN TimeSub(track_time_now, found.time) ELSE TimeZero
    IN  IF checked.failed_assertion # "" THEN checked
        ELSE Drive_get_next_event([checked EXCEPT !.track_ = found.track], offset, bit)

\* Whether Drive::get_next_event() makes a noise pulse of its event, and whether
\* Drive::setup_track() does, called with track_ null as step_to calls it.
Drive_get_next_event_makes_noise(d) ==
    d.track_.kind # "nullptr" /\ TimeGT(d.random_interval_, TimeZero)
Drive_setup_track_makes_noise(d) == TimeGT(d.random_interval_, TimeZero)

\* A process_next_event that counts every event towards readiness.
Drive_process_next_event_counting_all(d, bit) ==
    Drive_get_next_event(
        [d EXCEPT !.ready_index_count_ = IF @ < 2 THEN @ + 1 ELSE @,
                  !.cycles_since_index_hole_ =
                        IF d.current_event_.type = IndexHole THEN 0 ELSE @],
        TimeZero, bit)

\* Drive::process_next_event()
Drive_process_next_event(d, bit) ==
    Drive_get_next_event(
        IF d.current_event_.type = IndexHole
        THEN [d EXCEPT !.ready_index_count_ = IF @ < 2 THEN @ + 1 ELSE @,
                       !.cycles_since_index_hole_ = 0]
        ELSE d,
        TimeZero, bit)

\* A process_next_event that hands every event to the event delegate.
Drive_delegates_every_event(d) == d.current_event_.type \in {IndexHole, FluxTransition}

\* Whether process_next_event() hands current_event_ to the event delegate.
Drive_delegates_event(d) == d.current_event_.type = IndexHole \/ d.is_reading_

\* Drive::step_to(offset)
Drive_step_to(d, offset, bit) ==
    LET head_position == IF offset > HeadPosition(0) THEN offset ELSE HeadPosition(0)
    IN  IF head_position # d.head_position_
        THEN Drive_setup_track([d EXCEPT !.head_position_ = head_position,
                                         !.track_ = NullTrack], bit)
        ELSE d

\* Drive::begin_writing(bit_length, clamp_to_index_hole)
Drive_begin_writing(d, bit_length, clamp_to_index_hole) ==
    [d EXCEPT !.is_reading_ = FALSE,
              !.clamp_writing_to_index_hole_ = clamp_to_index_hole,
              !.cycles_per_bit_ = TimeSimplify(TimeMul(Time(d.input_clock_rate_, 1), bit_length)),
              !.write_segment_ = PCMSegment(<<>>, TimeDiv(bit_length, d.rotational_multiplier_)),
              !.write_start_time_ = Drive_get_time_into_track(d)]

\* Drive::write_bit(value)
Drive_write_bit(d, value) ==
    [d EXCEPT !.write_segment_.data = Append(@, value),
              !.cycles_until_bits_written_ = TimeAdd(@, d.cycles_per_bit_)]

(* Drive::run_for(cycles), one turn of its while loop up to the call of    *)
(* TimedEventLoop::run_for: how many cycles to run for, and the countdown  *)
(* of the bits being written.  queued is the number of bits the event      *)
(* delegate writes from process_write_completed().  The result is the      *)
(* drive, cycles_to_run_for and whether process_write_completed() ran.     *)

Min(a, b) == IF a < b THEN a ELSE b

RECURSIVE Drive_write_bits(_, _)
Drive_write_bits(d, queued) ==
    IF queued = 0 THEN d ELSE Drive_write_bits(Drive_write_bit(d, 1), queued - 1)

\* A run_for that tells the delegate only once it has run past the last bit.
Drive_run_for_step_strictly(d, number_of_cycles, queued) ==
    LET cycles_until_next_event == TimedEventLoop_get_cycles_until_next_event(d)
        writing == ~d.is_reading_ /\ TimeGT(d.cycles_until_bits_written_, TimeZero)
        write_cycles_target ==
            TimeGetInt(d.cycles_until_bits_written_)
                + (IF d.cycles_until_bits_written_.length
                        % d.cycles_until_bits_written_.clock_rate # 0 THEN 1 ELSE 0)
        cycles_to_run_for ==
            IF writing
            THEN Min(Min(cycles_until_next_event, number_of_cycles), write_cycles_target)
            ELSE Min(cycles_until_next_event, number_of_cycles)
        cycles_to_run_for_time == Time(cycles_to_run_for, 1)
        completed == writing /\ TimeLT(d.cycles_until_bits_written_, cycles_to_run_for_time)
        notified == IF completed THEN Drive_write_bits(d, queued) ELSE d
    IN  [drive |-> IF ~writing THEN d
                   ELSE [notified EXCEPT !.cycles_until_bits_written_ =
                            IF TimeLE(@, cycles_to_run_for_time) THEN TimeZero
                            ELSE TimeSub(@, cycles_to_run_for_time)],
         cycles_to_run_for |-> cycles_to_run_for,
         write_completed |-> completed]

\* Drive::run_for(cycles), a turn of its while loop, as described above.
Drive_run_for_step(d, number_of_cycles, queued) ==
    LET cycles_until_next_event == TimedEventLoop_get_cycles_until_next_event(d)
        writing == ~d.is_reading_ /\ TimeGT(d.cycles_until_bits_written_, TimeZero)
        write_cycles_target ==
            TimeGetInt(d.cycles_until_bits_written_)
                + (IF d.cycles_until_bits_written_.length
                        % d.cycles_until_bits_written_.clock_rate # 0 THEN 1 ELSE 0)
        cycles_to_run_for ==
            IF writing
            THEN Min(Min(cycles_until_next_event, number_of_cycles), write_cycles_target)
            ELSE Min(cycles_until_next_event, number_of_cycles)
        cycles_to_run_for_time == Time(cycles_to_run_for, 1)
        completed == writing /\ TimeLE(d.cycles_until_bits_written_, cycles_to_run_for_time)
        notified == IF completed THEN Drive_write_bits(d, queued) ELSE d
    IN  [drive |-> IF ~writing THEN d
                   ELSE [notified EXCEPT !.cycles_until_bits_written_ =
                            IF TimeLE(@, cycles_to_run_for_time) THEN TimeZero
                            ELSE TimeSub(@, cycles_to_run_for_time)],
         cycles_to_run_for |-> cycles_to_run_for,
         write_completed |-> completed]

----------------------------------------------------------------------------
(* Writing.  end_writing plots the written segment onto a copy of the       *)
(* drive's track at high resolution, a PCMTrack of bits_per_track places of *)
(* which flux holds those with a transition, and has the disk store it.    *)

high_resolution_track_rate == 500000

\* PCMTrack(bits_per_track): a single segment with no flux events.
PCMTrack_empty(bits_per_track) ==
    [kind |-> "PCMTrack", source |-> NoSource, is_resampled_clone |-> TRUE,
     bits_per_track |-> bits_per_track, flux |-> {}]

\* PCMTrack::resampled_clone(track, bits_per_track): the track flattened to
\* bits_per_track places.  Of a null track there is nothing to flatten: the
\* call is undefined, and either stops the program ("nullptr") or comes back
\* with an empty track ("empty").
PCMTrack_resampled_clone(track, bits_per_track, of_null) ==
    IF track.kind = "nullptr"
    THEN IF of_null = "empty" THEN PCMTrack_empty(bits_per_track) ELSE NullTrack
    ELSE IF track.kind = "UnformattedTrack" THEN PCMTrack_empty(bits_per_track)
    ELSE LET data == track.source.segment_.data
         IN  [PCMTrack_empty(bits_per_track) EXCEPT !.flux =
                 {((i - 1) * bits_per_track) \div Len(data) :
                     i \in {j \in 1 .. Len(data) : data[j] = 1}}]

\* The place on a track of bits_per_track places of a time in rotations.
PlaceOf(time, bits_per_track) ==
    LET t == TimeSimplify(time)
    IN  (t.length * bits_per_track) \div t.clock_rate

\* Whether a segment written from start_time takes up place p, the places
\* counted on round the index hole if round and only up to it if not; and the
\* places of its bits that are set, counted on from the start and not yet
\* brought round.
InSpan(p, start_time, segment, bits_per_track, round) ==
    LET from == PlaceOf(start_time, bits_per_track)
        places == PlaceOf(TimeMulInt(TimeSimplify(segment.length_of_a_bit),
                                     Len(segment.data)), bits_per_track)
    IN  IF round THEN (p - from) % bits_per_track < places
                 ELSE from <= p /\ p < from + places
SegmentFlux(start_time, segment, bits_per_track) ==
    {PlaceOf(start_time, bits_per_track)
        + PlaceOf(TimeMulInt(TimeSimplify(segment.length_of_a_bit), k - 1), bits_per_track) :
        k \in {j \in 1 .. Len(segment.data) : segment.data[j] = 1}}

\* PCMTrack::add_segment(start_time, segment, clamp_to_index_hole): what is on
\* the track from start_time for the length of the segment is replaced by the
\* segment, which is cut at the index hole if clamp_to_index_hole and goes on
\* over it if not.
PCMTrack_add_segment(track, start_time, segment, clamp_to_index_hole) ==
    LET n == track.bits_per_track
        Onto(places) == IF clamp_to_index_hole THEN {p \in places : p < n}
                                               ELSE {p % n : p \in places}
    IN  [track EXCEPT !.flux =
            {p \in @ : ~InSpan(p, start_time, segment, n, ~clamp_to_index_hole)}
                \cup Onto(SegmentFlux(start_time, segment, n))]

\* An end_writing that does not look at is_reading_.
Drive_end_writing_unguarded(d, of_null) ==
    LET reading == [d EXCEPT !.is_reading_ = TRUE]
        cast == IF d.track_.kind = "PCMTrack" THEN d.track_ ELSE NullTrack
        patched ==
            IF d.patched_track_.kind # "nullptr" THEN d.patched_track_
            ELSE IF cast.kind = "nullptr" \/ ~IsResampledClone(cast)
                 THEN PCMTrack_resampled_clone(d.track_, high_resolution_track_rate, of_null)
                 ELSE cast
    IN  IF patched.kind = "nullptr"
        THEN [drive |-> [reading EXCEPT !.failed_assertion = "Drive.cpp:327"],
              set_track |-> NullTrack]
        ELSE [drive |-> Drive_invalidate_track(
                           [reading EXCEPT !.cycles_since_index_hole_ =
                                               @ % d.input_clock_rate_]),
              set_track |-> IF d.has_disk_
                            THEN PCMTrack_add_segment(patched, d.write_start_time_,
                                     d.write_segment_, d.clamp_writing_to_index_hole_)
                            ELSE NullTrack]

\* Drive::end_writing(): the drive, and the track it has the disk store for
\* the current address (null if none).  of_null is what a resampled clone of
\* a null track_ comes to.
\* An end_writing that never clamps.
Drive_end_writing_unclamped(d, of_null) ==
    IF d.is_reading_ THEN [drive |-> d, set_track |-> NullTrack]
    ELSE LET reading == [d EXCEPT !.is_reading_ = TRUE]
             cast == IF d.track_.kind = "PCMTrack" THEN d.track_ ELSE NullTrack
             patched ==
                 IF d.patched_track_.kind # "nullptr" THEN d.patched_track_
                 ELSE IF cast.kind = "nullptr" \/ ~IsResampledClone(cast)
                      THEN PCMTrack_resampled_clone(d.track_, high_resolution_track_rate,
                                                    of_null)
                      ELSE cast
         IN  IF patched.kind = "nullptr"
             THEN [drive |-> [reading EXCEPT !.failed_assertion = "Drive.cpp:327"],
                   set_track |-> NullTrack]
             ELSE [drive |-> Drive_invalidate_track(
                                [reading EXCEPT !.cycles_since_index_hole_ =
                                                    @ % d.input_clock_rate_]),
                   set_track |-> IF d.has_disk_
                                 THEN PCMTrack_add_segment(patched, d.write_start_time_,
                                          d.write_segment_, FALSE)
                                 ELSE NullTrack]

Drive_end_writing(d, of_null) ==
    IF d.is_reading_ THEN [drive |-> d, set_track |-> NullTrack]
    ELSE LET reading == [d EXCEPT !.is_reading_ = TRUE]
             cast == IF d.track_.kind = "PCMTrack" THEN d.track_ ELSE NullTrack
             patched ==
                 IF d.patched_track_.kind # "nullptr" THEN d.patched_track_
                 ELSE IF cast.kind = "nullptr" \/ ~IsResampledClone(cast)
                      THEN PCMTrack_resampled_clone(d.track_, high_resolution_track_rate,
                                                    of_null)
                      ELSE cast
         IN  IF patched.kind = "nullptr"
             THEN [drive |-> [reading EXCEPT !.failed_assertion = "Drive.cpp:327"],
                   set_track |-> NullTrack]
             ELSE [drive |-> Drive_invalidate_track(
                                [reading EXCEPT !.cycles_since_index_hole_ =
                                                    @ % d.input_clock_rate_]),
                   set_track |-> IF d.has_disk_
                                 THEN PCMTrack_add_segment(patched, d.write_start_time_,
                                          d.write_segment_, d.clamp_writing_to_index_hole_)
                                 ELSE NullTrack]

NoWritten == [pc |-> "none"]
WriteAtRest ==
    /\ stored = NullTrack
    /\ written = NoWritten

NoObserver == [observer_ |-> FALSE, announce_motor_led_ |-> FALSE, told |-> <<>>]
NoTwin == [pc |-> "none"]
ObsAtRest ==
    /\ observer = NoObserver
    /\ twin = NoTwin
    /\ delivered = <<>>

NoReceiver == [half_cycles_ |-> 0, log |-> <<>>]
ClockAtRest == receiver = NoReceiver

NoFlywheel == [standard_period_ |-> 0]
NoFlyCall == [pc |-> "none"]
FlyAtRest ==
    /\ flywheel = NoFlywheel
    /\ flycall = NoFlyCall

NoPending == [bits |-> 0, ran |-> 0, notified |-> 0, at |-> 0]
NotifyAtRest == pending = NoPending

NoPlatter == [address \in {} |-> NullTrack]
NoSeen == [moved |-> "", begun |-> FALSE,
           fetched |-> FALSE, noise |-> FALSE, holes |-> 0, strays |-> 0,
           since_hole |-> 0, kept_from_writer |-> {}, given_to_writer |-> {}]
DiskAtRest ==
    /\ platter = NoPlatter
    /\ seen = NoSeen

NoPair == [pc |-> "none"]
PairAtRest == pair = NoPair

----------------------------------------------------------------------------
(* The drive of Spec: a disk turns in 20 microseconds, which is 5 cycles   *)
(* of the drive's clock, so that a rotation, the 15 microseconds of        *)
(* safe_gain_period and the 2 or 3 of a noise pulse are all a few cycles.  *)

DriveClockRate == 250000
DriveRevolutionsPerMinute == 3000000
DriveHeads == 2
WriteBitLengths == {Time(3, 2000000)}

NoDriveRun == [pc |-> "idle", cycles |-> 0, number_of_cycles |-> 0]
NoWatch == [advanced |-> 0, index_holes |-> 0, operations |-> 0]

DriveAtRest ==
    /\ drive = Drive_new(1, 60, 1, 0, IndexHole)
    /\ drun = NoDriveRun
    /\ dloop = NoRun
    /\ watch = NoWatch

----------------------------------------------------------------------------
(* Copies of an event source.  A PCMSegmentEventSource holds its segment   *)
(* through a std::shared_ptr: the model keeps the segments in a heap and   *)
(* writes the pointer as the segment's address there.  The operators above *)
(* take a source whose segment_ is the segment itself; Target puts the     *)
(* pointee in place of the pointer and Held puts the pointer back.         *)

Target(s, heap) == [s EXCEPT !.segment_ = heap[s.segment_]]
Held(s, address) == [s EXCEPT !.segment_ = address]

\* PCMSegmentEventSource::PCMSegmentEventSource(const PCMSegmentEventSource &):
\* the copy holds the pointer the original holds.
PCMSegmentEventSource_copy(from, heap) ==
    PCMSegmentEventSource_reset(
        [segment_     |-> from.segment_,
         bit_pointer_ |-> 0,
         next_event_  |-> [type |-> FluxTransition,
                           length |-> Time(0, heap[from.segment_].length_of_a_bit.clock_rate)]])

\* PCMSegment &PCMSegmentEventSource::segment(), written through: data[index] = bit
\* (index counted from 0).  The result is the heap afterwards.
PCMSegmentEventSource_segment_set(s, heap, index, bit) ==
    [heap EXCEPT ![s.segment_].data[index + 1] = bit]

\* The events a source returns from where it stands, up to and including the first
\* IndexHole (get_next_event called until then).
RECURSIVE EventsReturned(_)
EventsReturned(s) ==
    LET r == PCMSegmentEventSource_get_next_event(s)
    IN  IF r.event.type = IndexHole THEN <<r.event>>
        ELSE <<r.event>> \o EventsReturned(r.src)

NotCopied == [segment_ |-> 0, bit_pointer_ |-> 0,
              next_event_ |-> [type |-> FluxTransition, length |-> TimeZero]]
NoCopyCall == [name |-> "none", on |-> "none"]

CopyAtRest ==
    /\ segments = <<>>
    /\ original = NotCopied
    /\ copy = NotCopied
    /\ copycall = NoCopyCall

NoHeadCall == [name |-> "none", arg |-> 0, before |-> 0]

HeadAtRest ==
    /\ announced = <<>>
    /\ headcall = NoHeadCall

----------------------------------------------------------------------------
(* The FM and MFM encoders.  A uint16_t is an integer in 0 .. 65535 and    *)
(* the bitwise operators are computed bit by bit.  The target, a           *)
(* std::vector<bool>, is kept packed: output_short() is the only writer    *)
(* and pushes sixteen bits at a time, most significant first, so the       *)
(* target is the sequence of the shorts output, target_[1] first.          *)

Bit(x, i) == (x \div 2^i) % 2
Bits16 == 0 .. 15
Word16(f) ==
    f[0] + 2 * f[1] + 4 * f[2] + 8 * f[3] + 16 * f[4] + 32 * f[5] + 64 * f[6] + 128 * f[7]
    + 256 * f[8] + 512 * f[9] + 1024 * f[10] + 2048 * f[11] + 4096 * f[12] + 8192 * f[13]
    + 16384 * f[14] + 32768 * f[15]

\* a | b, a & b, a ^ b and (uint16_t)~a, (uint16_t)(a << n), of 16-bit values
BitOr(a, b) == Word16([i \in Bits16 |-> IF Bit(a, i) = 1 \/ Bit(b, i) = 1 THEN 1 ELSE 0])
BitAnd(a, b) == Word16([i \in Bits16 |-> IF Bit(a, i) = 1 /\ Bit(b, i) = 1 THEN 1 ELSE 0])
\* a ^ b, four bits at a time from the table of the sixteen by sixteen cases
Xor4 ==
    [a \in 0 .. 15 |-> [b \in 0 .. 15 |->
        (IF Bit(a, 0) # Bit(b, 0) THEN 1 ELSE 0) + (IF Bit(a, 1) # Bit(b, 1) THEN 2 ELSE 0)
        + (IF Bit(a, 2) # Bit(b, 2) THEN 4 ELSE 0) + (IF Bit(a, 3) # Bit(b, 3) THEN 8 ELSE 0)]]
BitXor(a, b) ==
    Xor4[a % 16][b % 16] + 16 * Xor4[(a \div 16) % 16][(b \div 16) % 16]
    + 256 * Xor4[(a \div 256) % 16][(b \div 256) % 16]
    + 4096 * Xor4[(a \div 4096) % 16][(b \div 4096) % 16]
BitNot16(a) == 65535 - a
ShiftLeft16(a, n) == (a * 2^n) % 65536

\* CRC-16/CCITT, the generator of the encoders: polynomial 0x1021, reset value 0xffff.
CRCPolynomial == 4129
CRCResetValue == 65535
RECURSIVE CRC16_shifted(_, _)
CRC16_shifted(shift_value, times) ==
    IF times = 0 THEN shift_value
    ELSE CRC16_shifted(
            IF Bit(shift_value, 15) = 1
            THEN BitXor(ShiftLeft16(shift_value, 1), CRCPolynomial)
            ELSE ShiftLeft16(shift_value, 1),
            times - 1)
CRC16_table == [c \in 0 .. 255 |-> CRC16_shifted(c * 256, 8)]
CRC16_add(value, byte) ==
    BitXor(ShiftLeft16(value, 8), CRC16_table[BitXor(value \div 256, byte)])

\* Constants.hpp: the address bytes, the FM address marks (data with their
\* clocks), the MFM syncs and the CRC of the three sync bytes 0xa1.
IndexAddressByte == 252
IDAddressByte == 254
DataAddressByte == 251
DeletedDataAddressByte == 248
FMIndexAddressMark == 63354
FMIDAddressMark == 62846
FMDataAddressMark == 62831
FMDeletedDataAddressMark == 62826
MFMIndexSync == 21028
MFMSync == 17545
MFMPostSyncCRCValue == 52660

\* Encoder::Encoder(target), as MFMEncoder or FMEncoder; last_output_ is the
\* MFMEncoder's, which its constructor leaves unset: whatever the memory holds.
Encoder_new(kind, last_output) ==
    [kind |-> kind, target_ |-> <<>>, last_output_ |-> last_output,
     crc_generator_ |-> CRCResetValue]

\* Encoder::output_short(value)
Encoder_output_short(e, value) == [e EXCEPT !.target_ = Append(@, value)]

\* MFMEncoder::output_short(value)
MFMEncoder_output_short(e, value) ==
    Encoder_output_short([e EXCEPT !.last_output_ = value], value)

\* The data bits of a byte on the even bits of a short.
Spread(input) ==
    Word16([i \in Bits16 |-> IF i % 2 = 0 THEN Bit(input, i \div 2) ELSE 0])

AllBytes == 0 .. 255

\* MFMEncoder::add_byte(input): the short it outputs.
MFMEncoder_output(input, last_output) ==
    LET spread_value == Spread(input)
        or_bits == BitOr(BitOr(ShiftLeft16(spread_value, 1), spread_value \div 2),
                         ShiftLeft16(last_output, 15))
    IN  BitOr(spread_value, BitAnd(BitNot16(or_bits), 43690))

\* The same, worked out once for each input.  (uint16_t)(last_output_ << 15) is
\* bit 0 of last_output_ and nothing else of it, so the table goes by that bit.
MFMEncoder_outputs ==
    [last_bit \in {0, 1} |-> [input \in AllBytes |-> MFMEncoder_output(input, last_bit)]]

\* An MFM add_byte that takes no account of the last short output.
MFMEncoder_add_byte_forgetful(e, input) ==
    MFMEncoder_output_short([e EXCEPT !.crc_generator_ = CRC16_add(@, input)],
                            MFMEncoder_outputs[0][input])

\* MFMEncoder::add_byte(input)
MFMEncoder_add_byte(e, input) ==
    MFMEncoder_output_short([e EXCEPT !.crc_generator_ = CRC16_add(@, input)],
                            MFMEncoder_outputs[e.last_output_ % 2][input])

\* FMEncoder::add_byte(input): the short it outputs, and the same worked out
\* once for each input.
FMEncoder_output(input) == BitOr(Spread(input), 43690)
FMEncoder_outputs == [input \in AllBytes |-> FMEncoder_output(input)]

\* FMEncoder::add_byte(input)
FMEncoder_add_byte(e, input) ==
    Encoder_output_short([e EXCEPT !.crc_generator_ = CRC16_add(@, input)],
                         FMEncoder_outputs[input])

\* Encoder::add_byte(input), as the encoder's class has it
Encoder_add_byte(e, input) ==
    IF e.kind = "MFM" THEN MFMEncoder_add_byte(e, input) ELSE FMEncoder_add_byte(e, input)

\* MFMEncoder::output_sync()
MFMEncoder_output_sync(e) ==
    [MFMEncoder_output_short(MFMEncoder_output_short(MFMEncoder_output_short(
        e, MFMSync), MFMSync), MFMSync) EXCEPT !.crc_generator_ = MFMPostSyncCRCValue]

\* An FM address mark: the CRC restarted at the mark's byte, the mark output as it is.
FMEncoder_add_mark(e, byte, mark) ==
    Encoder_output_short([e EXCEPT !.crc_generator_ = CRC16_add(CRCResetValue, byte)], mark)

\* add_index_address_mark(), add_ID_address_mark(), add_data_address_mark() and
\* add_deleted_data_address_mark()
Encoder_add_index_address_mark(e) ==
    IF e.kind = "MFM"
    THEN MFMEncoder_add_byte(
            MFMEncoder_output_short(MFMEncoder_output_short(MFMEncoder_output_short(
                e, MFMIndexSync), MFMIndexSync), MFMIndexSync),
            IndexAddressByte)
    ELSE FMEncoder_add_mark(e, IndexAddressByte, FMIndexAddressMark)
Encoder_add_ID_address_mark(e) ==
    IF e.kind = "MFM" THEN MFMEncoder_add_byte(MFMEncoder_output_sync(e), IDAddressByte)
    ELSE FMEncoder_add_mark(e, IDAddressByte, FMIDAddressMark)
Encoder_add_data_address_mark(e) ==
    IF e.kind = "MFM" THEN MFMEncoder_add_byte(MFMEncoder_output_sync(e), DataAddressByte)
    ELSE FMEncoder_add_mark(e, DataAddressByte, FMDataAddressMark)
Encoder_add_deleted_data_address_mark(e) ==
    IF e.kind = "MFM" THEN MFMEncoder_add_byte(MFMEncoder_output_sync(e), DeletedDataAddressByte)
    ELSE FMEncoder_add_mark(e, DeletedDataAddressByte, FMDeletedDataAddressMark)

\* Encoder::add_crc(incorrectly)
\* The CRC written low byte first.
Encoder_add_crc_low_first(e, incorrectly) ==
    LET crc_value == e.crc_generator_
    IN  Encoder_add_byte(Encoder_add_byte(e, BitXor(crc_value % 256,
                                                    IF incorrectly THEN 1 ELSE 0)),
                         crc_value \div 256)

Encoder_add_crc(e, incorrectly) ==
    LET crc_value == e.crc_generator_
    IN  Encoder_add_byte(Encoder_add_byte(e, crc_value \div 256),
                         BitXor(crc_value % 256, IF incorrectly THEN 1 ELSE 0))

\* first, then Next of what first gave: the order of two statements.
Sequenced(first, Next(_)) == CHOOSE after \in {Next(before) : before \in {first}} : TRUE

\* for(c = 0; c < count; c++) add_byte(value), the first half of the run and
\* then the second.
RECURSIVE Encoder_add_bytes(_, _, _)
Encoder_add_bytes(e, count, value) ==
    IF count = 0 THEN e
    ELSE IF count = 1 THEN Encoder_add_byte(e, value)
    ELSE Sequenced(Encoder_add_bytes(e, count \div 2, value),
                   LAMBDA half : Encoder_add_bytes(half, count - (count \div 2), value))

\* for(c = from; c < to; c++) add_byte(samples[c]), c counted from 0.
RECURSIVE Encoder_add_samples(_, _, _, _)
Encoder_add_samples(e, samples, from, to) ==
    IF to <= from THEN e
    ELSE IF to = from + 1 THEN Encoder_add_byte(e, samples[from + 1])
    ELSE Sequenced(Encoder_add_samples(e, samples, from, (from + to) \div 2),
                   LAMBDA half : Encoder_add_samples(half, samples, (from + to) \div 2, to))

\* DefaultSectorGapLength, std::numeric_limits<std::size_t>::max(): (size_t)-1.
DefaultSectorGapLength == -1

\* The arguments GetFMTrackWithSectors and GetMFMTrackWithSectors give to
\* GetTrackWithSectors.
GetFMTrackWithSectors_arguments(sector_gap_length) ==
    [kind |-> "FM",
     post_index_address_mark_bytes |-> 26, post_index_address_mark_value |-> 255,
     pre_address_mark_bytes |-> 6,
     post_address_mark_bytes |-> 11, post_address_mark_value |-> 255,
     pre_data_mark_bytes |-> 6,
     post_data_bytes |-> IF sector_gap_length # DefaultSectorGapLength
                         THEN sector_gap_length ELSE 27,
     post_data_value |-> 255,
     expected_track_bytes |-> 6250]
GetMFMTrackWithSectors_arguments(sector_gap_length) ==
    [kind |-> "MFM",
     post_index_address_mark_bytes |-> 50, post_index_address_mark_value |-> 78,
     pre_address_mark_bytes |-> 12,
     post_address_mark_bytes |-> 22, post_address_mark_value |-> 78,
     pre_data_mark_bytes |-> 12,
     post_data_bytes |-> IF sector_gap_length # DefaultSectorGapLength
                         THEN sector_gap_length ELSE 54,
     post_data_value |-> 255,
     expected_track_bytes |-> 12500]

\* GetTrackWithSectors, up to its loop over the sectors: the index mark and the
\* bytes after it.  The shifter's last_output_ is unset and is written by the
\* index mark before anything reads it.
GetTrackWithSectors_begin(a) ==
    Sequenced(Encoder_add_index_address_mark(Encoder_new(a.kind, 0)),
              LAMBDA marked : Encoder_add_bytes(marked, a.post_index_address_mark_bytes,
                                                a.post_index_address_mark_value))

\* The sector header: gap, ID address mark, track, side, sector, size and CRC.
GetTrackWithSectors_header(e, sector, a) ==
    Sequenced(Encoder_add_bytes(e, a.pre_address_mark_bytes, 0),
    LAMBDA gapped : Encoder_add_crc(
        Encoder_add_byte(Encoder_add_byte(Encoder_add_byte(Encoder_add_byte(
            Encoder_add_ID_address_mark(gapped),
            sector.address.track), sector.address.side), sector.address.sector), sector.size),
        sector.has_header_crc_error))

\* The sector's data, if attached: mark, samples[0] up to the declared length,
\* zeroes up to the declared length, CRC.
GetTrackWithSectors_data(e, sector) ==
    LET declared_length == 128 * 2^sector.size
        given == IF Len(sector.samples[1]) < declared_length
                 THEN Len(sector.samples[1]) ELSE declared_length
    IN  Sequenced(IF sector.is_deleted THEN Encoder_add_deleted_data_address_mark(e)
                                       ELSE Encoder_add_data_address_mark(e),
        LAMBDA marked : Sequenced(Encoder_add_samples(marked, sector.samples[1], 0, given),
        LAMBDA sampled : Sequenced(Encoder_add_bytes(sampled, declared_length - given, 0),
        LAMBDA padded : Encoder_add_crc(padded, sector.has_data_crc_error))))

\* GetTrackWithSectors, one turn of its loop over the sectors.
GetTrackWithSectors_sector(e, sector, a) ==
    Sequenced(GetTrackWithSectors_header(e, sector, a),
    LAMBDA headed : Sequenced(Encoder_add_bytes(headed, a.post_address_mark_bytes,
                                                a.post_address_mark_value),
    LAMBDA gapped : Sequenced(Encoder_add_bytes(gapped, a.pre_data_mark_bytes, 0),
    LAMBDA ready : Sequenced(IF sector.samples # <<>>
                             THEN GetTrackWithSectors_data(ready, sector) ELSE ready,
    LAMBDA filled : Encoder_add_bytes(filled, a.post_data_bytes, a.post_data_value)))))

\* data.resize(size) of a packed vector of more than size bits.
Resized(data, size) ==
    LET shorts == (size + 15) \div 16
        spare == 16 * shorts - size
    IN  [i \in 1 .. shorts |->
            IF i = shorts THEN (data[i] \div 2^spare) * 2^spare ELSE data[i]]

\* A resize that keeps every short begun.
GetTrackWithSectors_end_whole_shorts(e, a) ==
    LET size == 16 * Len(e.target_)
        wanted == a.expected_track_bytes * 8
        filled == IF size < wanted
                  THEN Encoder_add_bytes(e, (wanted - size + 15) \div 16, 0)
                  ELSE e
        max_size == (a.expected_track_bytes + (a.expected_track_bytes \div 10)) * 8
        shorts == (max_size + 15) \div 16
    IN  IF 16 * Len(filled.target_) > max_size
        THEN [data |-> SubSeq(filled.target_, 1, shorts), size |-> 16 * shorts]
        ELSE [data |-> filled.target_, size |-> 16 * Len(filled.target_)]

\* GetTrackWithSectors, after its loop over the sectors: zero bytes until the
\* track is expected_track_bytes * 8 bits long, and no more than a tenth over
\* that kept.  The result is the segment the PCMTrack is made of: its bits,
\* packed, and their number.
GetTrackWithSectors_end(e, a) ==
    LET size == 16 * Len(e.target_)
        wanted == a.expected_track_bytes * 8
        filled == IF size < wanted
                  THEN Encoder_add_bytes(e, (wanted - size + 15) \div 16, 0)
                  ELSE e
        max_size == (a.expected_track_bytes + (a.expected_track_bytes \div 10)) * 8
    IN  IF 16 * Len(filled.target_) > max_size
        THEN [data |-> Resized(filled.target_, max_size), size |-> max_size]
        ELSE [data |-> filled.target_, size |-> 16 * Len(filled.target_)]

NoEncLog == [first |-> 0, bytes |-> 0]

EncAtRest ==
    /\ encoder = Encoder_new("MFM", 0)
    /\ enclog = NoEncLog

\* target_[index], the bits counted from 0 in the order they were pushed.
NoRequest == [kind |-> "", sectors |-> <<>>, sector_gap_length |-> 0]
NoShifter == Encoder_new("", 0)
NoSegment == [data |-> <<>>, size |-> 0]
TrackAtRest ==
    /\ request = NoRequest
    /\ shifter = NoShifter
    /\ built = [pc |-> "none", next |-> 0, segment |-> NoSegment]

TargetBit(target, index) == Bit(target[(index \div 16) + 1], 15 - (index % 16))

----------------------------------------------------------------------------
(* SpecSeg: one event source, any bit vector of up to MaxBits bits at any  *)
(* of the bit lengths below, and any interleaving of its three operations. *)

RECURSIVE BitVectors(_)
BitVectors(n) ==
    IF n = 0 THEN {<<>>}
    ELSE LET shorter == BitVectors(n - 1)
         IN  shorter \cup {Append(v, b) : v \in {w \in shorter : Len(w) = n - 1}, b \in {0, 1}}

\* Bit lengths: an odd numerator (doubled by the constructor) and even ones.
BitLengths == {Time(1, 4), Time(2, 5), Time(4, 9)}

SeekClockRates == {8, 3}
SeekTimes == {Time(k, c) : k \in 0 .. MaxSeekNumerator, c \in SeekClockRates}

NoCall == [name |-> "none", arg |-> TimeZero, time |-> TimeZero,
           event |-> [type |-> IndexHole, length |-> TimeZero], pointer_before |-> 0]

\* The variables of the other specifications, at rest.
LoopAtRest ==
    /\ tel = TimedEventLoop_new(1)
    /\ telrun = NoRun
    /\ teltime = NoTime
    /\ telsum = NoSum

SegInit ==
    /\ \E data \in BitVectors(MaxBits), lob \in BitLengths :
          source = PCMSegmentEventSource_new(PCMSegment(data, lob))
    /\ call = [NoCall EXCEPT !.name = "new"]
    /\ prev = NoCall
    /\ origin = [NoCall EXCEPT !.name = "new"]
    /\ elapsed = TimeZero
    /\ holes = 0
    /\ LoopAtRest
    /\ DriveAtRest
    /\ CopyAtRest
    /\ HeadAtRest
    /\ EncAtRest
    /\ TrackAtRest
    /\ WriteAtRest
    /\ ObsAtRest
    /\ ClockAtRest
    /\ FlyAtRest
    /\ NotifyAtRest
    /\ DiskAtRest
    /\ PairAtRest

SegAtRest ==
    /\ source = PCMSegmentEventSource_new(PCMSegment(<<>>, Time(1, 1)))
    /\ call = NoCall
    /\ prev = NoCall
    /\ origin = NoCall
    /\ elapsed = TimeZero
    /\ holes = 0

SegReset ==
    /\ source' = PCMSegmentEventSource_reset(source)
    /\ call' = [NoCall EXCEPT !.name = "reset", !.pointer_before = source.bit_pointer_]
    /\ prev' = NoCall
    /\ origin' = call'
    /\ elapsed' = TimeZero
    /\ holes' = 0
    /\ UNCHANGED <<loopVars, driveVars, copyVars, headVars, encVars, trackVars, writeVars, obsVars, clockVars, flyVars, notifyVars, diskVars, pairVars>>

SegSeekTo ==
    \E t \in SeekTimes :
        LET r == PCMSegmentEventSource_seek_to(source, t)
        IN  /\ source' = r.src
            /\ call' = [NoCall EXCEPT !.name = "seek_to", !.arg = t, !.time = r.time,
                                      !.pointer_before = source.bit_pointer_]
            /\ prev' = NoCall
            /\ origin' = call'
            /\ elapsed' = TimeSimplify(r.time)
            /\ holes' = 0
    /\ UNCHANGED <<loopVars, driveVars, copyVars, headVars, encVars, trackVars, writeVars, obsVars, clockVars, flyVars, notifyVars, diskVars, pairVars>>

SegGetNextEvent ==
    LET r == PCMSegmentEventSource_get_next_event(source)
    IN  /\ source' = r.src
        /\ call' = [NoCall EXCEPT !.name = "get_next_event", !.event = r.event,
                                  !.pointer_before = source.bit_pointer_]
        /\ prev' = IF call.name = "seek_to" THEN call ELSE NoCall
        /\ origin' = origin
        /\ elapsed' = TimeSimplify(TimeAdd(elapsed, r.event.length))
        /\ holes' = IF r.event.type = IndexHole THEN (IF holes = 0 THEN 1 ELSE 2) ELSE holes
    /\ UNCHANGED <<loopVars, driveVars, copyVars, headVars, encVars, trackVars, writeVars, obsVars, clockVars, flyVars, notifyVars, diskVars, pairVars>>

SegNext == SegReset \/ SegSeekTo \/ SegGetNextEvent

SpecSeg == SegInit /\ [][SegNext]_vars

----------------------------------------------------------------------------
(* SpecLoop: a TimedEventLoop whose subclass answers process_next_event()  *)
(* by scheduling the next event after any of LoopIntervals, and whose      *)
(* owner runs it for any number of cycles up to MaxRun at a time.          *)

LoopClockRates == {4, 49}
LoopIntervals == {Time(1, 4), Time(3, 8), Time(1, 49)}

\* The sums kept of the calls of set_next_event_time_interval, after one more call.
SumAfter(sum, before, after, interval) ==
    LET exact_interval ==
            TimeAdd(TimeMulInt(interval, before.input_clock_rate_),
                    Time(before.subcycles_until_event_.num, before.subcycles_until_event_.den))
        double_interval == TimedEventLoop_double_interval(before, interval)
    IN  [calls     |-> sum.calls + 1,
         intervals |-> TimeSimplify(TimeAdd(sum.intervals, interval)),
         additions |-> sum.additions + (after.cycles_until_event_ - before.cycles_until_event_),
         exact     |-> sum.exact /\ TimeEQ(exact_interval,
                                           Time(double_interval.num, double_interval.den))]

LoopInit ==
    /\ \E rate \in LoopClockRates : tel = TimedEventLoop_new(rate)
    /\ telrun = NoRun
    /\ teltime = NoTime
    /\ telsum = NoSum
    /\ SegAtRest
    /\ DriveAtRest
    /\ CopyAtRest
    /\ HeadAtRest
    /\ EncAtRest
    /\ TrackAtRest
    /\ WriteAtRest
    /\ ObsAtRest
    /\ ClockAtRest
    /\ FlyAtRest
    /\ NotifyAtRest
    /\ DiskAtRest
    /\ PairAtRest

\* The owner calls run_for(n).
LoopRunFor ==
    /\ telrun.pc = "idle"
    /\ \E n \in 0 .. MaxRun : telrun' = TimedEventLoop_run_for_begin(n)
    /\ teltime' = [teltime EXCEPT !.op = "run_for"]
    /\ UNCHANGED <<tel, telsum>>
    /\ UNCHANGED <<segVars, driveVars, copyVars, headVars, encVars, trackVars, writeVars, obsVars, clockVars, flyVars, notifyVars, diskVars, pairVars>>

\* run_for: one turn of the while loop, process_next_event() included.
LoopRunForEvent ==
    /\ telrun.pc = "loop"
    /\ TimedEventLoop_run_for_event_due(tel, telrun.remaining_cycles)
    /\ telsum.calls < MaxCalls
    /\ \E interval \in LoopIntervals :
          LET step  == TimedEventLoop_run_for_to_event(tel, telrun)
              after == TimedEventLoop_set_next_event_time_interval(step.loop, interval)
          IN  /\ tel' = after
              /\ telrun' = step.run
              /\ teltime' = [since_event |-> 0,
                             scheduled |-> after.cycles_until_event_,
                             fired |-> [valid |-> TRUE,
                                        since_event |-> teltime.since_event + step.advance,
                                        scheduled |-> teltime.scheduled],
                             op |-> "run_for"]
              /\ telsum' = SumAfter(telsum, step.loop, after, interval)
    /\ UNCHANGED <<segVars, driveVars, copyVars, headVars, encVars, trackVars, writeVars, obsVars, clockVars, flyVars, notifyVars, diskVars, pairVars>>

\* run_for: the end of the call.
LoopRunForReturn ==
    /\ telrun.pc = "loop"
    /\ ~TimedEventLoop_run_for_event_due(tel, telrun.remaining_cycles)
    /\ LET step == TimedEventLoop_run_for_remainder(tel, telrun)
       IN  /\ tel' = step.loop
           /\ telrun' = step.run
           /\ teltime' = [teltime EXCEPT !.since_event =
                                @ + (IF step.advance > 0 THEN step.advance ELSE 0)]
    /\ UNCHANGED telsum
    /\ UNCHANGED <<segVars, driveVars, copyVars, headVars, encVars, trackVars, writeVars, obsVars, clockVars, flyVars, notifyVars, diskVars, pairVars>>

\* The subclass calls reset_timer().
LoopResetTimer ==
    /\ telrun.pc = "idle"
    /\ tel' = TimedEventLoop_reset_timer(tel)
    /\ teltime' = [NoTime EXCEPT !.op = "reset_timer"]
    /\ telsum' = NoSum
    /\ UNCHANGED telrun
    /\ UNCHANGED <<segVars, driveVars, copyVars, headVars, encVars, trackVars, writeVars, obsVars, clockVars, flyVars, notifyVars, diskVars, pairVars>>

\* The subclass calls jump_to_next_event(): reset_timer(), then process_next_event().
LoopJumpToNextEvent ==
    /\ telrun.pc = "idle"
    /\ \E interval \in LoopIntervals :
          LET reset == TimedEventLoop_reset_timer(tel)
              after == TimedEventLoop_set_next_event_time_interval(reset, interval)
          IN  /\ tel' = after
              /\ teltime' = [NoTime EXCEPT !.op = "jump_to_next_event",
                                           !.scheduled = after.cycles_until_event_]
              /\ telsum' = SumAfter(NoSum, reset, after, interval)
    /\ UNCHANGED telrun
    /\ UNCHANGED <<segVars, driveVars, copyVars, headVars, encVars, trackVars, writeVars, obsVars, clockVars, flyVars, notifyVars, diskVars, pairVars>>

\* The subclass calls set_next_event_time_interval() between events.
LoopSetNextEventTimeInterval ==
    /\ telrun.pc = "idle"
    /\ telsum.calls < MaxCalls
    /\ \E interval \in LoopIntervals :
          LET after == TimedEventLoop_set_next_event_time_interval(tel, interval)
          IN  /\ tel' = after
              /\ teltime' = [teltime EXCEPT
                                !.op = "set_next_event_time_interval",
                                !.scheduled = @ + (after.cycles_until_event_ - tel.cycles_until_event_)]
              /\ telsum' = SumAfter(telsum, tel, after, interval)
    /\ UNCHANGED telrun
    /\ UNCHANGED <<segVars, driveVars, copyVars, headVars, encVars, trackVars, writeVars, obsVars, clockVars, flyVars, notifyVars, diskVars, pairVars>>

LoopNext ==
    \/ LoopRunFor
    \/ LoopRunForEvent
    \/ LoopRunForReturn
    \/ LoopResetTimer
    \/ LoopJumpToNextEvent
    \/ LoopSetNextEventTimeInterval

SpecLoop == LoopInit /\ [][LoopNext]_vars

----------------------------------------------------------------------------
(* Spec: a Drive and its owner.  The owner calls the drive's operations    *)
(* one at a time; run_for is taken a loop turn at a time, and nothing else *)
(* is called while it runs.  The owner calls run_for as often as it likes  *)
(* and the other operations MaxOperations times between them, a write_bit  *)
(* from process_write_completed() counted among these.  Once an assertion  *)
(* has failed nothing more happens.                                        *)

Init ==
    /\ \E random_source \in {0, 1}, type \in {IndexHole, FluxTransition} :
          drive = Drive_new(DriveClockRate, DriveRevolutionsPerMinute, DriveHeads,
                            random_source, type)
    /\ drun = NoDriveRun
    /\ dloop = NoRun
    /\ watch = NoWatch
    /\ SegAtRest
    /\ LoopAtRest
    /\ CopyAtRest
    /\ HeadAtRest
    /\ EncAtRest
    /\ TrackAtRest
    /\ WriteAtRest
    /\ ObsAtRest
    /\ ClockAtRest
    /\ FlyAtRest
    /\ NotifyAtRest
    /\ DiskAtRest
    /\ PairAtRest

Callable == drun.pc = "idle" /\ drive.failed_assertion = ""

\* The owner has an operation other than run_for left to call, and calls it.
Operable == Callable /\ watch.operations < MaxOperations
Operated(w) == [w EXCEPT !.operations = @ + 1]

\* An operation other than run_for leaves no call of run_for behind.
NotRunning == UNCHANGED <<drun, dloop, segVars, loopVars, copyVars, headVars, encVars, trackVars, writeVars, obsVars, clockVars, flyVars, notifyVars, diskVars, pairVars>>

SetDisk ==
    /\ Operable
    /\ \E disk \in {0, 1} : drive' = Drive_set_disk(drive, disk)
    /\ watch' = Operated(watch)
    /\ NotRunning

SetMotorOn ==
    /\ Operable
    /\ \E motor_is_on \in BOOLEAN :
          /\ drive' = Drive_set_motor_on(drive, motor_is_on)
          /\ watch' = [Operated(watch) EXCEPT !.index_holes =
                                        IF motor_is_on /\ ~drive.motor_is_on_ THEN 0 ELSE @]
    /\ NotRunning

Step ==
    /\ Operable
    /\ \E offset \in {HeadPosition(-1), HeadPosition(1)} :
          /\ drive' = Drive_step(drive, offset)
    /\ watch' = Operated(watch)
    /\ NotRunning

StepTo ==
    /\ Operable
    /\ \E offset \in {HeadPosition(-1), HeadPosition(0), HeadPosition(1)}, bit \in {0, 1} :
          drive' = Drive_step_to(drive, offset, bit)
    /\ watch' = Operated(watch)
    /\ NotRunning

SetHead ==
    /\ Operable
    /\ \E head \in {0, 1} : drive' = Drive_set_head(drive, head)
    /\ watch' = Operated(watch)
    /\ NotRunning

BeginWriting ==
    /\ Operable
    /\ \E bit_length \in WriteBitLengths, clamp_to_index_hole \in {TRUE} :
          drive' = Drive_begin_writing(drive, bit_length, clamp_to_index_hole)
    /\ watch' = Operated(watch)
    /\ NotRunning

WriteBit ==
    /\ Operable
    /\ \E value \in {1} : drive' = Drive_write_bit(drive, value)
    /\ watch' = Operated(watch)
    /\ NotRunning

\* Drive::run_for(cycles) is called.
RunFor ==
    /\ Callable
    /\ \E cycles \in 0 .. MaxCycles :
          drun' = [pc |-> IF Drive_run_for_runs(drive) THEN "while" ELSE "return",
                   cycles |-> cycles, number_of_cycles |-> cycles]
    /\ UNCHANGED <<drive, dloop, watch, segVars, loopVars, copyVars, headVars, encVars, trackVars, writeVars, obsVars, clockVars, flyVars, notifyVars, diskVars, pairVars>>

\* Drive::run_for, a turn of its loop up to the call of TimedEventLoop::run_for.
RunForStep ==
    /\ drun.pc = "while"
    /\ drun.number_of_cycles # 0
    /\ drive.failed_assertion = ""
    /\ \E queued \in 0 .. 1 :
          LET step == Drive_run_for_step(drive, drun.number_of_cycles, queued)
          IN  /\ queued > 0 =>
                    /\ step.write_completed
                    /\ watch.operations + queued <= MaxOperations
              /\ watch' = [watch EXCEPT !.operations = @ + queued]
              /\ drive' = step.drive
              /\ drun' = [drun EXCEPT !.pc = "TimedEventLoop::run_for",
                                      !.number_of_cycles = @ - step.cycles_to_run_for]
              /\ dloop' = TimedEventLoop_run_for_begin(step.cycles_to_run_for)
    /\ UNCHANGED <<segVars, loopVars, copyVars, headVars, encVars, trackVars, writeVars, obsVars, clockVars, flyVars, notifyVars, diskVars, pairVars>>

\* Drive::run_for returns.
RunForReturn ==
    /\ \/ drun.pc = "while" /\ drun.number_of_cycles = 0
       \/ drun.pc = "return"
    /\ drun' = NoDriveRun
    /\ watch' = [watch EXCEPT !.advanced = 0]
    /\ UNCHANGED <<drive, dloop, segVars, loopVars, copyVars, headVars, encVars, trackVars, writeVars, obsVars, clockVars, flyVars, notifyVars, diskVars, pairVars>>

\* TimedEventLoop::run_for, a turn of its loop: Drive::advance, then
\* Drive::process_next_event.
RunForEvent ==
    /\ drun.pc = "TimedEventLoop::run_for"
    /\ drive.failed_assertion = ""
    /\ TimedEventLoop_run_for_event_due(drive, dloop.remaining_cycles)
    /\ \E bit \in {0, 1} :
          LET step == TimedEventLoop_run_for_to_event(drive, dloop)
              advanced == Drive_advance(step.loop, step.advance)
          IN  /\ drive' = Drive_process_next_event(advanced, bit)
              /\ dloop' = step.run
              /\ watch' = [watch EXCEPT
                              !.advanced = @ + step.advance,
                              !.index_holes =
                                  IF drive.current_event_.type = IndexHole /\ @ < 2
                                  THEN @ + 1 ELSE @]
    /\ UNCHANGED <<drun, segVars, loopVars, copyVars, headVars, encVars, trackVars, writeVars, obsVars, clockVars, flyVars, notifyVars, diskVars, pairVars>>

\* TimedEventLoop::run_for, after its loop: the last Drive::advance and the
\* two assertions, and the return to Drive::run_for.
RunForRest ==
    /\ drun.pc = "TimedEventLoop::run_for"
    /\ drive.failed_assertion = ""
    /\ ~TimedEventLoop_run_for_event_due(drive, dloop.remaining_cycles)
    /\ LET step == TimedEventLoop_run_for_remainder(drive, dloop)
           advanced == IF step.advance >= 0 THEN Drive_advance(step.loop, step.advance)
                                             ELSE step.loop
           counted == Asserted(advanced, step.run.cycles_advanced = step.run.cycles,
                               "TimedEventLoop.cpp:38")
           checked == Asserted(counted, counted.cycles_until_event_ > 0,
                               "TimedEventLoop.cpp:39")
       IN  /\ drive' = checked
           /\ watch' = [watch EXCEPT !.advanced =
                            @ + (IF step.advance >= 0 THEN step.advance ELSE 0)]
           /\ drun' = IF checked.failed_assertion = ""
                      THEN [drun EXCEPT !.pc = "while"] ELSE drun
    /\ dloop' = NoRun
    /\ UNCHANGED <<segVars, loopVars, copyVars, headVars, encVars, trackVars, writeVars, obsVars, clockVars, flyVars, notifyVars, diskVars, pairVars>>

Next ==
    \/ SetDisk
    \/ SetMotorOn
    \/ Step
    \/ StepTo
    \/ SetHead
    \/ BeginWriting
    \/ WriteBit
    \/ RunFor
    \/ RunForStep
    \/ RunForReturn
    \/ RunForEvent
    \/ RunForRest

\* A call of run_for, once made, is carried through: the program is sequential.
Running == RunForStep \/ RunForReturn \/ RunForEvent \/ RunForRest

Spec == Init /\ [][Next]_vars /\ WF_vars(Running)

----------------------------------------------------------------------------
(* SpecCopy: an event source over any bit vector of up to MaxBits bits, a  *)
(* copy constructed from it, and any interleaving of get_next_event, reset *)
(* and writes through segment() on either of the two.                      *)

Sources == {"original", "copy"}
SourceNamed(on) == IF on = "original" THEN original ELSE copy

CopyInit ==
    /\ \E data \in BitVectors(MaxBits), lob \in BitLengths :
          LET s == PCMSegmentEventSource_new(PCMSegment(data, lob))
          IN  /\ segments = <<s.segment_>>
              /\ original = Held(s, 1)
    /\ copy = NotCopied
    /\ copycall = [name |-> "new", on |-> "original"]
    /\ SegAtRest
    /\ LoopAtRest
    /\ DriveAtRest
    /\ HeadAtRest
    /\ EncAtRest
    /\ TrackAtRest
    /\ WriteAtRest
    /\ ObsAtRest
    /\ ClockAtRest
    /\ FlyAtRest
    /\ NotifyAtRest
    /\ DiskAtRest
    /\ PairAtRest

CopyConstruct ==
    /\ copy' = PCMSegmentEventSource_copy(original, segments)
    /\ copycall' = [name |-> "copy", on |-> "copy"]
    /\ UNCHANGED <<segments, original>>
    /\ UNCHANGED <<segVars, loopVars, driveVars, headVars, encVars, trackVars, writeVars, obsVars, clockVars, flyVars, notifyVars, diskVars, pairVars>>

CopyGetNextEvent ==
    \E on \in Sources :
        LET s == SourceNamed(on)
            r == PCMSegmentEventSource_get_next_event(Target(s, segments))
        IN  /\ s.segment_ # 0
            /\ original' = IF on = "original" THEN Held(r.src, s.segment_) ELSE original
            /\ copy' = IF on = "copy" THEN Held(r.src, s.segment_) ELSE copy
            /\ copycall' = [name |-> "get_next_event", on |-> on]
            /\ UNCHANGED segments
            /\ UNCHANGED <<segVars, loopVars, driveVars, headVars, encVars, trackVars, writeVars, obsVars, clockVars, flyVars, notifyVars, diskVars, pairVars>>

CopyReset ==
    \E on \in Sources :
        LET s == SourceNamed(on)
        IN  /\ s.segment_ # 0
            /\ original' = IF on = "original" THEN PCMSegmentEventSource_reset(s) ELSE original
            /\ copy' = IF on = "copy" THEN PCMSegmentEventSource_reset(s) ELSE copy
            /\ copycall' = [name |-> "reset", on |-> on]
            /\ UNCHANGED segments
            /\ UNCHANGED <<segVars, loopVars, driveVars, headVars, encVars, trackVars, writeVars, obsVars, clockVars, flyVars, notifyVars, diskVars, pairVars>>

CopySegmentSet ==
    \E on \in Sources :
        LET s == SourceNamed(on)
        IN  /\ s.segment_ # 0
            /\ \E index \in 0 .. Len(segments[s.segment_].data) - 1, bit \in {0, 1} :
                  segments' = PCMSegmentEventSource_segment_set(s, segments, index, bit)
            /\ copycall' = [name |-> "segment", on |-> on]
            /\ UNCHANGED <<original, copy>>
            /\ UNCHANGED <<segVars, loopVars, driveVars, headVars, encVars, trackVars, writeVars, obsVars, clockVars, flyVars, notifyVars, diskVars, pairVars>>

CopyNext == CopyConstruct \/ CopyGetNextEvent \/ CopyReset \/ CopySegmentSet

SpecCopy == CopyInit /\ [][CopyNext]_vars

----------------------------------------------------------------------------
(* SpecHead: a Drive with an activity observer attached, and an owner that *)
(* moves its head: step, step_to and set_head with arguments of either     *)
(* sign, in whole, half and quarter tracks, MaxOperations calls in all.    *)

StepOffsets ==
    {HeadPosition(-2), HeadPosition(-1), HeadPositionAt(-1, 4), HeadPosition(0),
     HeadPositionAt(1, 2), HeadPosition(1)}
StepPositions ==
    {HeadPosition(-1), HeadPositionAt(-1, 4), HeadPosition(0), HeadPosition(1)}
Heads == -1 .. DriveHeads

HeadInit ==
    /\ \E random_source \in {0, 1}, disk \in {0, 1} :
          drive = Drive_set_disk(Drive_new(DriveClockRate, DriveRevolutionsPerMinute,
                                           DriveHeads, random_source, IndexHole), disk)
    /\ drun = NoDriveRun
    /\ dloop = NoRun
    /\ watch = NoWatch
    /\ announced = <<>>
    /\ headcall = [NoHeadCall EXCEPT !.name = "new"]
    /\ SegAtRest
    /\ LoopAtRest
    /\ CopyAtRest
    /\ EncAtRest
    /\ TrackAtRest
    /\ WriteAtRest
    /\ ObsAtRest
    /\ ClockAtRest
    /\ FlyAtRest
    /\ NotifyAtRest
    /\ DiskAtRest
    /\ PairAtRest

HeadMoves == UNCHANGED <<drun, dloop, segVars, loopVars, copyVars, encVars, trackVars, writeVars, obsVars, clockVars, flyVars, notifyVars, diskVars, pairVars>>

HeadStep ==
    /\ Operable
    /\ \E offset \in StepOffsets :
          /\ drive' = Drive_step(drive, offset)
          /\ announced' = Drive_step_announces(drive, offset)
          /\ headcall' = [name |-> "step", arg |-> offset, before |-> drive.head_position_]
    /\ watch' = Operated(watch)
    /\ HeadMoves

HeadStepTo ==
    /\ Operable
    /\ \E offset \in StepPositions, bit \in {0, 1} :
          /\ drive' = Drive_step_to(drive, offset, bit)
          /\ headcall' = [name |-> "step_to", arg |-> offset, before |-> drive.head_position_]
    /\ announced' = <<>>
    /\ watch' = Operated(watch)
    /\ HeadMoves

HeadSetHead ==
    /\ Operable
    /\ \E head \in Heads :
          /\ drive' = Drive_set_head(drive, head)
          /\ headcall' = [name |-> "set_head", arg |-> head, before |-> drive.head_position_]
    /\ announced' = <<>>
    /\ watch' = Operated(watch)
    /\ HeadMoves

HeadNext == HeadStep \/ HeadStepTo \/ HeadSetHead

SpecHead == HeadInit /\ [][HeadNext]_vars

----------------------------------------------------------------------------
(* SpecEnc: an MFMEncoder given up to MaxBytes bytes.  Its last_output_ is *)
(* any of PreviousShorts: the short it has just output (a sync, or one     *)
(* that breaks the MFM rule itself) or, with nothing output yet, whatever  *)
(* the unset field holds.  The first byte is any byte; the bytes after it  *)
(* are from LaterBytes.                                                    *)

PreviousShorts == {0, 1, MFMSync, MFMIndexSync, 65535}
LaterBytes == {0, 1, 78, 128, 161, 255}

EncInit ==
    /\ \E last_output \in PreviousShorts, output \in BOOLEAN :
          /\ encoder = IF output
                       THEN MFMEncoder_output_short(Encoder_new("MFM", 0), last_output)
                       ELSE Encoder_new("MFM", last_output)
          /\ enclog = [first |-> IF output THEN 1 ELSE 0, bytes |-> 0]
    /\ SegAtRest
    /\ LoopAtRest
    /\ DriveAtRest
    /\ CopyAtRest
    /\ HeadAtRest
    /\ TrackAtRest
    /\ WriteAtRest
    /\ ObsAtRest
    /\ ClockAtRest
    /\ FlyAtRest
    /\ NotifyAtRest
    /\ DiskAtRest
    /\ PairAtRest

EncAddByte ==
    /\ enclog.bytes < MaxBytes
    /\ \E input \in (IF enclog.bytes = 0 THEN AllBytes ELSE LaterBytes) :
          encoder' = MFMEncoder_add_byte(encoder, input)
    /\ enclog' = [enclog EXCEPT !.bytes = @ + 1]
    /\ UNCHANGED <<segVars, loopVars, driveVars, copyVars, headVars, trackVars, writeVars, obsVars, clockVars, flyVars, notifyVars, diskVars, pairVars>>

EncNext == EncAddByte

SpecEnc == EncInit /\ [][EncNext]_vars

----------------------------------------------------------------------------
\* SpecTrack: a call of GetFMTrackWithSectors or GetMFMTrackWithSectors, taken
\* through GetTrackWithSectors a statement at a time.

\* Payloads: n bytes that differ from one another.
Samples(n, seed) == [i \in 1 .. n |-> (seed + 37 * i) % 256]

\* The sectors given: one with a short payload, one deleted with a payload
\* longer than its declared length, one without data and with a bad header
\* CRC, one with a payload of its declared length and a bad data CRC.
Sectors ==
    {[address |-> [track |-> 0, side |-> 0, sector |-> 1], size |-> 0,
      samples |-> <<Samples(3, 229)>>,
      has_header_crc_error |-> FALSE, has_data_crc_error |-> FALSE, is_deleted |-> FALSE],
     [address |-> [track |-> 79, side |-> 1, sector |-> 255], size |-> 1,
      samples |-> <<Samples(258, 0)>>,
      has_header_crc_error |-> FALSE, has_data_crc_error |-> FALSE, is_deleted |-> TRUE],
     [address |-> [track |-> 1, side |-> 0, sector |-> 2], size |-> 0,
      samples |-> <<>>,
      has_header_crc_error |-> TRUE, has_data_crc_error |-> FALSE, is_deleted |-> FALSE],
     [address |-> [track |-> 1, side |-> 1, sector |-> 3], size |-> 0,
      samples |-> <<Samples(128, 78)>>,
      has_header_crc_error |-> FALSE, has_data_crc_error |-> TRUE, is_deleted |-> FALSE]}

SectorLists == UNION {[1 .. n -> Sectors] : n \in 0 .. MaxSectors}

\* The gaps asked for: the default, none, and one that a track has room for once
\* and not twice.
SectorGapLengths == {DefaultSectorGapLength, 0, 3200}

Arguments(r) ==
    IF r.kind = "FM" THEN GetFMTrackWithSectors_arguments(r.sector_gap_length)
                     ELSE GetMFMTrackWithSectors_arguments(r.sector_gap_length)

TrackInit ==
    /\ \E kind \in {"FM", "MFM"}, sectors \in SectorLists,
          sector_gap_length \in SectorGapLengths :
          request = [kind |-> kind, sectors |-> sectors,
                     sector_gap_length |-> sector_gap_length]
    /\ shifter = NoShifter
    /\ built = [pc |-> "begin", next |-> 0, segment |-> NoSegment]
    /\ SegAtRest
    /\ LoopAtRest
    /\ DriveAtRest
    /\ CopyAtRest
    /\ HeadAtRest
    /\ EncAtRest
    /\ WriteAtRest
    /\ ObsAtRest
    /\ ClockAtRest
    /\ FlyAtRest
    /\ NotifyAtRest
    /\ DiskAtRest
    /\ PairAtRest

TrackElse ==
    UNCHANGED <<request, segVars, loopVars, driveVars, copyVars, headVars, encVars, writeVars, obsVars, clockVars, flyVars, notifyVars, diskVars, pairVars>>

TrackBegin ==
    /\ built.pc = "begin"
    /\ shifter' = GetTrackWithSectors_begin(Arguments(request))
    /\ built' = [built EXCEPT !.pc = "sectors", !.next = 1]
    /\ TrackElse

TrackSector ==
    /\ built.pc = "sectors"
    /\ built.next <= Len(request.sectors)
    /\ shifter' = GetTrackWithSectors_sector(shifter, request.sectors[built.next],
                                             Arguments(request))
    /\ built' = [built EXCEPT !.next = @ + 1]
    /\ TrackElse

TrackEnd ==
    /\ built.pc = "sectors"
    /\ built.next > Len(request.sectors)
    /\ built' = [built EXCEPT !.pc = "done",
                              !.segment = GetTrackWithSectors_end(shifter, Arguments(request))]
    /\ UNCHANGED shifter
    /\ TrackElse

TrackNext ==
    \/ TrackBegin
    \/ TrackSector
    \/ TrackEnd

SpecTrack == TrackInit /\ [][TrackNext]_vars

----------------------------------------------------------------------------
\* SpecWrite: a drive with a disk in it and its motor on is run, and written
\* to once: begin_writing, write_bit and run_for in any order, end_writing.

WriteInit ==
    /\ \E random_source \in {0, 1} :
          drive = Drive_set_motor_on(
                      Drive_set_disk(Drive_new(DriveClockRate, DriveRevolutionsPerMinute,
                                               DriveHeads, random_source, IndexHole), 1),
                      TRUE)
    /\ drun = NoDriveRun
    /\ dloop = NoRun
    /\ watch = NoWatch
    /\ stored = NullTrack
    /\ written = [pc |-> "reading"]
    /\ SegAtRest
    /\ LoopAtRest
    /\ CopyAtRest
    /\ HeadAtRest
    /\ EncAtRest
    /\ TrackAtRest
    /\ ObsAtRest
    /\ ClockAtRest
    /\ FlyAtRest
    /\ NotifyAtRest
    /\ DiskAtRest
    /\ PairAtRest

\* The lengths of the bits written: 1.5 and 2.5 microseconds, 3/40 and 1/8 of a
\* rotation.
WrittenBitLengths == {Time(3, 2000000), Time(5, 2000000)}

WriteElse ==
    UNCHANGED <<drun, dloop, segVars, loopVars, copyVars, headVars, encVars, trackVars, obsVars, clockVars, flyVars, notifyVars, diskVars, pairVars>>

WriteRunFor ==
    /\ written.pc # "ended"
    /\ RunFor

WriteBegin ==
    /\ Operable
    /\ written.pc = "reading"
    /\ \E bit_length \in WrittenBitLengths, clamp_to_index_hole \in BOOLEAN :
          drive' = Drive_begin_writing(drive, bit_length, clamp_to_index_hole)
    /\ watch' = Operated(watch)
    /\ written' = [pc |-> "writing"]
    /\ UNCHANGED stored
    /\ WriteElse

WriteBitValue ==
    /\ Operable
    /\ written.pc = "writing"
    /\ \E value \in {0, 1} : drive' = Drive_write_bit(drive, value)
    /\ watch' = Operated(watch)
    /\ UNCHANGED writeVars
    /\ WriteElse

WriteEnd ==
    /\ Callable
    /\ written.pc = "writing"
    /\ \E of_null \in {"nullptr", "empty"} :
          /\ drive' = Drive_end_writing(drive, of_null).drive
          /\ stored' = Drive_end_writing(drive, of_null).set_track
    /\ written' = [pc |-> "ended",
                   head |-> drive.head_, position |-> drive.head_position_,
                   start_time |-> drive.write_start_time_,
                   segment |-> drive.write_segment_,
                   clamp_to_index_hole |-> drive.clamp_writing_to_index_hole_,
                   track_ |-> drive.track_]
    /\ UNCHANGED watch
    /\ WriteElse

WriteNext ==
    \/ WriteRunFor
    \/ RunForStep
    \/ RunForReturn
    \/ RunForEvent
    \/ RunForRest
    \/ WriteBegin
    \/ WriteBitValue
    \/ WriteEnd

SpecWrite == WriteInit /\ [][WriteNext]_vars

----------------------------------------------------------------------------
(* SpecObs: two Drives given the same calls with the same arguments, and   *)
(* the same bits from their randomisers.  The one in drive, drun and dloop *)
(* is also given set_activity_observer, with an observer or with none; the *)
(* one in twin never is.  A drive with its calls in progress and the       *)
(* events its delegate got in the current run_for is a record m.           *)

Told(name, value) == [call |-> name, value |-> value]

\* Drive::set_activity_observer(observer, name, add_motor_led): observer_ and
\* announce_motor_led_ afterwards and what the observer, if there is one, is told.
Drive_set_activity_observer(d, attached, add_motor_led) ==
    [observer_ |-> attached,
     announce_motor_led_ |-> add_motor_led,
     told |-> IF attached
              THEN <<Told("register_drive", TRUE),
                     Told("set_drive_motor_status", d.motor_is_on_)>>
                   \o (IF add_motor_led
                       THEN <<Told("register_led", TRUE),
                              Told("set_led_status", d.motor_is_on_)>>
                       ELSE <<>>)
              ELSE <<>>]

\* Drive::step(offset) of a drive whose observer_ and announce_motor_led_ are
\* those of o: the drive afterwards and what the observer is told.
Drive_step_observed(d, o, offset) ==
    [drive |-> Drive_step(d, offset),
     told |-> IF o.observer_
              THEN <<Told(Drive_step_announces(d, offset)[1], TRUE)>> ELSE <<>>]

\* A set_motor_on that clears the ready count inside its if(observer_).
Drive_set_motor_on_clearing_if_observed(d, o, motor_is_on) ==
    [drive |-> IF d.motor_is_on_ # motor_is_on
               THEN [d EXCEPT !.motor_is_on_ = motor_is_on,
                              !.ready_index_count_ =
                                    IF o.observer_ /\ ~motor_is_on THEN 0 ELSE @]
               ELSE d,
     told |-> IF d.motor_is_on_ # motor_is_on /\ o.observer_
              THEN <<Told("set_drive_motor_status", motor_is_on)>>
                   \o (IF o.announce_motor_led_
                       THEN <<Told("set_led_status", motor_is_on)>> ELSE <<>>)
              ELSE <<>>]

\* Drive::set_motor_on(motor_is_on) of a drive whose observer_ and
\* announce_motor_led_ are those of o.
Drive_set_motor_on_observed(d, o, motor_is_on) ==
    [drive |-> Drive_set_motor_on(d, motor_is_on),
     told |-> IF d.motor_is_on_ # motor_is_on /\ o.observer_
              THEN <<Told("set_drive_motor_status", motor_is_on)>>
                   \o (IF o.announce_motor_led_
                       THEN <<Told("set_led_status", motor_is_on)>> ELSE <<>>)
              ELSE <<>>]

\* Drive::run_for(cycles) is called.
Drive_run_for_called(m, cycles) ==
    [m EXCEPT !.drun = [pc |-> IF Drive_run_for_runs(m.drive) THEN "while" ELSE "return",
                        cycles |-> cycles, number_of_cycles |-> cycles],
              !.delivered = <<>>]

\* Drive::run_for, a turn of its loop up to the call of TimedEventLoop::run_for.
Drive_run_for_turn(m) ==
    LET step == Drive_run_for_step(m.drive, m.drun.number_of_cycles, 0)
    IN  [m EXCEPT !.drive = step.drive,
                  !.drun = [@ EXCEPT !.pc = "TimedEventLoop::run_for",
                                     !.number_of_cycles = @ - step.cycles_to_run_for],
                  !.dloop = TimedEventLoop_run_for_begin(step.cycles_to_run_for)]

\* Drive::run_for returns.
Drive_run_for_returned(m) == [m EXCEPT !.drun = NoDriveRun]

\* TimedEventLoop::run_for, a turn of its loop: Drive::advance, then
\* Drive::process_next_event, which hands the event to the delegate.
TimedEventLoop_run_for_turn(m, bit) ==
    LET step == TimedEventLoop_run_for_to_event(m.drive, m.dloop)
        advanced == Drive_advance(step.loop, step.advance)
    IN  [m EXCEPT !.drive = Drive_process_next_event(advanced, bit),
                  !.dloop = step.run,
                  !.delivered = IF Drive_delegates_event(advanced)
                                THEN Append(@, advanced.current_event_) ELSE @]

\* TimedEventLoop::run_for, after its loop, and the return to Drive::run_for.
TimedEventLoop_run_for_returned(m) ==
    LET step == TimedEventLoop_run_for_remainder(m.drive, m.dloop)
        advanced == IF step.advance >= 0 THEN Drive_advance(step.loop, step.advance)
                                          ELSE step.loop
        counted == Asserted(advanced, step.run.cycles_advanced = step.run.cycles,
                            "TimedEventLoop.cpp:38")
        checked == Asserted(counted, counted.cycles_until_event_ > 0,
                            "TimedEventLoop.cpp:39")
    IN  [m EXCEPT !.drive = checked,
                  !.drun = IF checked.failed_assertion = ""
                           THEN [@ EXCEPT !.pc = "while"] ELSE @,
                  !.dloop = NoRun]

\* The drive that has the observer, as a record like twin.
Observed == [drive |-> drive, drun |-> drun, dloop |-> dloop, delivered |-> delivered]

\* The drive that has the observer becomes m, and the other one t.
Become(m, t) ==
    /\ drive' = m.drive
    /\ drun' = m.drun
    /\ dloop' = m.dloop
    /\ delivered' = m.delivered
    /\ twin' = t

ObsInit ==
    /\ \E random_source \in {0}, type \in {IndexHole} :
          LET d == Drive_set_disk(Drive_new(DriveClockRate, DriveRevolutionsPerMinute,
                                            DriveHeads, random_source, type), 1)
          IN  /\ drive = d
              /\ twin = [drive |-> d, drun |-> NoDriveRun, dloop |-> NoRun,
                         delivered |-> <<>>]
    /\ drun = NoDriveRun
    /\ dloop = NoRun
    /\ watch = NoWatch
    /\ observer = NoObserver
    /\ delivered = <<>>
    /\ SegAtRest
    /\ LoopAtRest
    /\ CopyAtRest
    /\ HeadAtRest
    /\ EncAtRest
    /\ TrackAtRest
    /\ WriteAtRest
    /\ ClockAtRest
    /\ FlyAtRest
    /\ NotifyAtRest
    /\ DiskAtRest
    /\ PairAtRest

ObsElse ==
    UNCHANGED <<segVars, loopVars, copyVars, headVars, encVars, trackVars, writeVars, clockVars, flyVars, notifyVars, diskVars, pairVars>>

ObsSetActivityObserver ==
    /\ Operable
    /\ \E attached \in BOOLEAN, add_motor_led \in BOOLEAN :
          /\ add_motor_led => attached
          /\ observer' = Drive_set_activity_observer(drive, attached, add_motor_led)
    /\ watch' = Operated(watch)
    /\ UNCHANGED <<drive, drun, dloop, twin, delivered>>
    /\ ObsElse

ObsSetMotorOn ==
    /\ Operable
    /\ \E motor_is_on \in BOOLEAN :
          /\ Become([Observed EXCEPT
                        !.drive = Drive_set_motor_on_observed(drive, observer, motor_is_on).drive],
                    [twin EXCEPT
                        !.drive = Drive_set_motor_on_observed(twin.drive, NoObserver,
                                                              motor_is_on).drive])
          /\ observer' = [observer EXCEPT
                            !.told = Drive_set_motor_on_observed(drive, observer, motor_is_on).told]
    /\ watch' = Operated(watch)
    /\ ObsElse

ObsStep ==
    /\ Operable
    /\ \E offset \in {HeadPosition(-1), HeadPosition(1)} :
          /\ Become([Observed EXCEPT !.drive = Drive_step_observed(drive, observer, offset).drive],
                    [twin EXCEPT !.drive = Drive_step_observed(twin.drive, NoObserver,
                                                               offset).drive])
          /\ observer' = [observer EXCEPT
                            !.told = Drive_step_observed(drive, observer, offset).told]
    /\ watch' = Operated(watch)
    /\ ObsElse

ObsStepTo ==
    /\ Operable
    /\ \E offset \in {HeadPosition(1)}, bit \in {0} :
          Become([Observed EXCEPT !.drive = Drive_step_to(drive, offset, bit)],
                 [twin EXCEPT !.drive = Drive_step_to(twin.drive, offset, bit)])
    /\ observer' = [observer EXCEPT !.told = <<>>]
    /\ watch' = Operated(watch)
    /\ ObsElse

ObsSetHead ==
    /\ Operable
    /\ \E head \in {1} :
          Become([Observed EXCEPT !.drive = Drive_set_head(drive, head)],
                 [twin EXCEPT !.drive = Drive_set_head(twin.drive, head)])
    /\ observer' = [observer EXCEPT !.told = <<>>]
    /\ watch' = Operated(watch)
    /\ ObsElse

ObsRunFor ==
    /\ Callable
    /\ \E cycles \in 0 .. MaxCycles :
          Become(Drive_run_for_called(Observed, cycles), Drive_run_for_called(twin, cycles))
    /\ observer' = [observer EXCEPT !.told = <<>>]
    /\ UNCHANGED watch
    /\ ObsElse

ObsRunForStep ==
    /\ drun.pc = "while"
    /\ drun.number_of_cycles # 0
    /\ drive.failed_assertion = ""
    /\ Become(Drive_run_for_turn(Observed), Drive_run_for_turn(twin))
    /\ UNCHANGED <<observer, watch>>
    /\ ObsElse

ObsRunForReturn ==
    /\ \/ drun.pc = "while" /\ drun.number_of_cycles = 0
       \/ drun.pc = "return"
    /\ Become(Drive_run_for_returned(Observed), Drive_run_for_returned(twin))
    /\ UNCHANGED <<observer, watch>>
    /\ ObsElse

ObsRunForEvent ==
    /\ drun.pc = "TimedEventLoop::run_for"
    /\ drive.failed_assertion = ""
    /\ TimedEventLoop_run_for_event_due(drive, dloop.remaining_cycles)
    /\ \E bit \in {0, 1} :
          Become(TimedEventLoop_run_for_turn(Observed, bit),
                 TimedEventLoop_run_for_turn(twin, bit))
    /\ UNCHANGED <<observer, watch>>
    /\ ObsElse

ObsRunForRest ==
    /\ drun.pc = "TimedEventLoop::run_for"
    /\ drive.failed_assertion = ""
    /\ ~TimedEventLoop_run_for_event_due(drive, dloop.remaining_cycles)
    /\ Become(TimedEventLoop_run_for_returned(Observed),
              TimedEventLoop_run_for_returned(twin))
    /\ UNCHANGED <<observer, watch>>
    /\ ObsElse

ObsNext ==
    \/ ObsSetActivityObserver
    \/ ObsSetMotorOn
    \/ ObsStep
    \/ ObsStepTo
    \/ ObsSetHead
    \/ ObsRunFor
    \/ ObsRunForStep
    \/ ObsRunForReturn
    \/ ObsRunForEvent
    \/ ObsRunForRest

SpecObs == ObsInit /\ [][ObsNext]_vars

----------------------------------------------------------------------------
(* SpecClock: a HalfClockReceiver<T> whose owner calls run_for(HalfCycles) *)
(* MaxCalls times with 0 to MaxHalfCycles half cycles, T::run_for(Cycles)  *)
(* being given what each call forwards.  The numbers stay far inside an    *)
(* int.                                                                    *)

\* A flush_cycles that leaves nothing behind, as flush() does.
HalfCycles_flush_cycles_clearing(length_) ==
    [result |-> length_ \div 2, length_ |-> 0]

\* HalfCycles::flush_cycles(): length_ >> 1 is returned and length_ &= 1 is kept.
HalfCycles_flush_cycles(length_) ==
    [result |-> length_ \div 2, length_ |-> length_ % 2]

\* HalfClockReceiver::run_for(half_cycles): the half cycles held back afterwards
\* and the cycles T::run_for is called with.
HalfClockReceiver_run_for(half_cycles_, half_cycles) ==
    LET flushed == HalfCycles_flush_cycles(half_cycles_ + half_cycles)
    IN  [half_cycles_ |-> flushed.length_, cycles |-> flushed.result]

ClockInit ==
    /\ receiver = NoReceiver
    /\ SegAtRest
    /\ LoopAtRest
    /\ DriveAtRest
    /\ CopyAtRest
    /\ HeadAtRest
    /\ EncAtRest
    /\ TrackAtRest
    /\ WriteAtRest
    /\ ObsAtRest
    /\ FlyAtRest
    /\ NotifyAtRest
    /\ DiskAtRest
    /\ PairAtRest

ClockElse ==
    UNCHANGED <<segVars, loopVars, driveVars, copyVars, headVars, encVars, trackVars, writeVars, obsVars, flyVars, notifyVars, diskVars, pairVars>>

ClockRunFor ==
    /\ Len(receiver.log) < MaxCalls
    /\ \E half_cycles \in 0 .. MaxHalfCycles :
          LET ran == HalfClockReceiver_run_for(receiver.half_cycles_, half_cycles)
          IN  receiver' = [half_cycles_ |-> ran.half_cycles_,
                           log |-> Append(receiver.log,
                                          [half_cycles |-> half_cycles,
                                           cycles |-> ran.cycles])]
    /\ ClockElse

ClockNext == ClockRunFor

SpecClock == ClockInit /\ [][ClockNext]_vars

----------------------------------------------------------------------------
(* SpecFly: a Flywheel whose owner asks for the next event in a period and *)
(* then applies it, over and over, with a synchronisation request whenever *)
(* it likes, MaxSyncs times in all.  An unsigned int of the model has 30   *)
(* bits, not 32: the numbers of the model are below 2^7, so that a sum or  *)
(* a product wraps in neither and a difference wraps in both alike.        *)

UnsignedRange == 2^30
Unsigned(x) == x % UnsignedRange

\* Flywheel::Flywheel(standard_period, retrace_time, sync_error_window)
Flywheel_new(standard_period, retrace_time, sync_error_window) ==
    [standard_period_ |-> standard_period,
     retrace_time_ |-> retrace_time,
     sync_error_window_ |-> sync_error_window,
     counter_ |-> 0,
     counter_before_retrace_ |-> Unsigned(standard_period - retrace_time),
     expected_next_sync_ |-> standard_period,
     number_of_surprises_ |-> 0]

\* Flywheel::get_next_event_in_period, its first part: what a synchronisation
\* request does to expected_next_sync_ and number_of_surprises_.
Flywheel_sync(f) ==
    IF f.counter_ < f.sync_error_window_
           \/ f.counter_ > Unsigned(f.expected_next_sync_ - f.sync_error_window_)
    THEN LET time_now == IF f.counter_ < f.sync_error_window_
                         THEN Unsigned(f.expected_next_sync_ + f.counter_)
                         ELSE f.counter_
         IN  [f EXCEPT !.expected_next_sync_ =
                            Unsigned(3 * f.expected_next_sync_ + time_now) \div 4]
    ELSE [f EXCEPT !.number_of_surprises_ = Unsigned(@ + 1),
                   !.expected_next_sync_ =
                        IF f.counter_ < Unsigned(f.retrace_time_ + f.expected_next_sync_ \div 2)
                        THEN Unsigned(3 * f.expected_next_sync_ + f.standard_period_
                                        + f.sync_error_window_) \div 4
                        ELSE Unsigned(3 * f.expected_next_sync_ + f.standard_period_
                                        - f.sync_error_window_) \div 4]

\* Flywheel::get_next_event_in_period, its second part: the event proposed and
\* the time until it.
Flywheel_proposal(f, cycles_to_run_for) ==
    LET ends == f.counter_ < f.retrace_time_
                    /\ Unsigned(f.counter_ + cycles_to_run_for) >= f.retrace_time_
        end_time == IF ends THEN Unsigned(f.retrace_time_ - f.counter_) ELSE cycles_to_run_for
        starts == Unsigned(f.counter_ + end_time) >= f.expected_next_sync_
    IN  [event |-> IF starts THEN "StartRetrace" ELSE IF ends THEN "EndRetrace" ELSE "None",
         cycles_advanced |-> IF starts THEN Unsigned(f.expected_next_sync_ - f.counter_)
                                       ELSE end_time]

\* Flywheel::get_next_event_in_period(sync_is_requested, cycles_to_run_for,
\* &cycles_advanced): the flywheel afterwards, the event returned and cycles_advanced.
Flywheel_get_next_event_in_period(f, sync_is_requested, cycles_to_run_for) ==
    LET synced == IF sync_is_requested THEN Flywheel_sync(f) ELSE f
        proposal == Flywheel_proposal(synced, cycles_to_run_for)
    IN  [flywheel |-> synced, event |-> proposal.event,
         cycles_advanced |-> proposal.cycles_advanced]

\* Flywheel::apply_event(cycles_advanced, event)
Flywheel_apply_event(f, cycles_advanced, event) ==
    LET counter == Unsigned(f.counter_ + cycles_advanced)
    IN  IF event = "StartRetrace"
        THEN [f EXCEPT !.counter_before_retrace_ = Unsigned(counter - f.retrace_time_),
                       !.counter_ = 0]
        ELSE [f EXCEPT !.counter_ = counter]

\* Flywheel::get_and_reset_number_of_surprises()
Flywheel_get_and_reset_number_of_surprises(f) == [f EXCEPT !.number_of_surprises_ = 0]

\* The periods the owner looks ahead by.
FlyPeriods == {0, 2, 27}

\* The flywheel of the model: a period of 20 with 2 of retrace, and syncs taken
\* as expected within 5 of the expected time.
FlyInit ==
    /\ flywheel = Flywheel_new(20, 2, 5)
    /\ flycall = [pc |-> "applied", sync_is_requested |-> FALSE, cycles_to_run_for |-> 0,
                  event |-> "None", cycles_advanced |-> 0, syncs |-> 0]
    /\ SegAtRest
    /\ LoopAtRest
    /\ DriveAtRest
    /\ CopyAtRest
    /\ HeadAtRest
    /\ EncAtRest
    /\ TrackAtRest
    /\ WriteAtRest
    /\ ObsAtRest
    /\ ClockAtRest
    /\ NotifyAtRest
    /\ DiskAtRest
    /\ PairAtRest

FlyElse ==
    UNCHANGED <<segVars, loopVars, driveVars, copyVars, headVars, encVars, trackVars, writeVars, obsVars, clockVars, notifyVars, diskVars, pairVars>>

FlyGetNextEventInPeriod ==
    /\ flycall.pc = "applied"
    /\ \E sync_is_requested \in BOOLEAN, cycles_to_run_for \in FlyPeriods :
          LET got == Flywheel_get_next_event_in_period(flywheel, sync_is_requested,
                                                       cycles_to_run_for)
          IN  /\ sync_is_requested => flycall.syncs < MaxSyncs
              /\ flywheel' = got.flywheel
              /\ flycall' = [pc |-> "got", sync_is_requested |-> sync_is_requested,
                             cycles_to_run_for |-> cycles_to_run_for,
                             event |-> got.event, cycles_advanced |-> got.cycles_advanced,
                             syncs |-> flycall.syncs + (IF sync_is_requested THEN 1 ELSE 0)]
    /\ FlyElse

FlyApplyEvent ==
    /\ flycall.pc = "got"
    /\ flywheel' = Flywheel_apply_event(flywheel, flycall.cycles_advanced, flycall.event)
    /\ flycall' = [flycall EXCEPT !.pc = "applied"]
    /\ FlyElse

FlyGetAndResetNumberOfSurprises ==
    /\ flycall.pc = "applied"
    /\ flywheel.number_of_surprises_ > 0
    /\ flywheel' = Flywheel_get_and_reset_number_of_surprises(flywheel)
    /\ UNCHANGED flycall
    /\ FlyElse

FlyNext == FlyGetNextEventInPeriod \/ FlyApplyEvent \/ FlyGetAndResetNumberOfSurprises

SpecFly == FlyInit /\ [][FlyNext]_vars

----------------------------------------------------------------------------
(* SpecNotify: a Drive with a disk in and its motor on that has begun to   *)
(* write.  Its owner queues bits with write_bit, MaxOperations in all, and *)
(* calls run_for as it likes, a loop turn at a time; the event delegate   *)
(* writes nothing from process_write_completed().                          *)

\* The lengths of the bits written: 1.5, 2 and 6 microseconds, which are 3/8,
\* 1/2 and 3/2 of a cycle.
NotifyBitLengths == {Time(3, 2000000), Time(2, 1000000), Time(6, 1000000)}

NotifyInit ==
    /\ \E random_source \in {0, 1}, bit_length \in NotifyBitLengths :
          drive = Drive_begin_writing(
                      Drive_set_motor_on(
                          Drive_set_disk(Drive_new(DriveClockRate, DriveRevolutionsPerMinute,
                                                   DriveHeads, random_source, IndexHole), 1),
                          TRUE),
                      bit_length, FALSE)
    /\ drun = NoDriveRun
    /\ dloop = NoRun
    /\ watch = NoWatch
    /\ pending = NoPending
    /\ SegAtRest
    /\ LoopAtRest
    /\ CopyAtRest
    /\ HeadAtRest
    /\ EncAtRest
    /\ TrackAtRest
    /\ WriteAtRest
    /\ ObsAtRest
    /\ ClockAtRest
    /\ FlyAtRest
    /\ DiskAtRest
    /\ PairAtRest

NotifyElse ==
    UNCHANGED <<segVars, loopVars, copyVars, headVars, encVars, trackVars, writeVars, obsVars, clockVars, flyVars, diskVars, pairVars>>

NotifyWriteBit ==
    /\ Operable
    /\ drive' = Drive_write_bit(drive, 1)
    /\ watch' = Operated(watch)
    /\ pending' = IF pending.notified > 0
                  THEN [NoPending EXCEPT !.bits = 1]
                  ELSE [pending EXCEPT !.bits = @ + 1]
    /\ UNCHANGED <<drun, dloop>>
    /\ NotifyElse

\* Drive::run_for(cycles) is called, while fewer than MaxWritingCycles cycles
\* have been run since the bits were queued.
NotifyRunFor ==
    /\ Callable
    /\ pending.ran < MaxWritingCycles
    /\ \E cycles \in 0 .. MaxCycles :
          drun' = [pc |-> IF Drive_run_for_runs(drive) THEN "while" ELSE "return",
                   cycles |-> cycles, number_of_cycles |-> cycles]
    /\ UNCHANGED <<drive, dloop, watch, pending>>
    /\ NotifyElse

NotifyRunForStep ==
    /\ drun.pc = "while"
    /\ drun.number_of_cycles # 0
    /\ drive.failed_assertion = ""
    /\ LET step == Drive_run_for_step(drive, drun.number_of_cycles, 0)
           ran == pending.ran + step.cycles_to_run_for
       IN  /\ drive' = step.drive
           /\ drun' = [drun EXCEPT !.pc = "TimedEventLoop::run_for",
                                   !.number_of_cycles = @ - step.cycles_to_run_for]
           /\ dloop' = TimedEventLoop_run_for_begin(step.cycles_to_run_for)
           /\ pending' =
                 IF pending.bits = 0 THEN pending
                 ELSE [pending EXCEPT
                          !.ran = ran,
                          !.notified = IF step.write_completed THEN @ + 1 ELSE @,
                          !.at = IF step.write_completed /\ pending.notified = 0
                                 THEN ran ELSE @]
    /\ UNCHANGED watch
    /\ NotifyElse

NotifyNext ==
    \/ NotifyWriteBit
    \/ NotifyRunFor
    \/ NotifyRunForStep
    \/ RunForReturn
    \/ RunForEvent
    \/ RunForRest

SpecNotify == NotifyInit /\ [][NotifyNext]_vars

----------------------------------------------------------------------------
(* SpecDisk: a Drive as it is constructed, with a disk in and its motor    *)
(* on, and its owner, who calls the drive's operations one at a time:      *)
(* run_for and end_writing as often as it likes; set_disk, set_motor_on,   *)
(* step, step_to or set_head once; begin_writing once, and then write_bit  *)
(* once.  A call of run_for is taken whole.  The disk keeps the tracks it  *)
(* is given.  The event delegate writes nothing.  Once an assertion has    *)
(* failed nothing more happens.                                            *)

DiskInit ==
    /\ \E random_source \in {0, 1}, type \in {IndexHole, FluxTransition} :
          drive = Drive_set_motor_on(
                      Drive_set_disk(Drive_new(DriveClockRate, DriveRevolutionsPerMinute,
                                               DriveHeads, random_source, type), 1),
                      TRUE)
    /\ drun = NoDriveRun
    /\ dloop = NoRun
    /\ watch = NoWatch
    /\ platter = NoPlatter
    /\ seen = NoSeen
    /\ SegAtRest
    /\ LoopAtRest
    /\ CopyAtRest
    /\ HeadAtRest
    /\ EncAtRest
    /\ TrackAtRest
    /\ WriteAtRest
    /\ ObsAtRest
    /\ ClockAtRest
    /\ FlyAtRest
    /\ NotifyAtRest
    /\ PairAtRest

DiskElse ==
    UNCHANGED <<drun, dloop, watch, segVars, loopVars, copyVars, headVars, encVars, trackVars, writeVars, obsVars, clockVars, flyVars, notifyVars, pairVars>>

\* The owner changes the disk, the motor or the head, by the call named, which
\* makes d of the drive.
DiskMoved(name, d) ==
    /\ Callable
    /\ seen.moved = ""
    /\ drive' = d
    /\ UNCHANGED platter
    /\ DiskElse

DiskSetDisk ==
    /\ \E disk \in {0, 1} : DiskMoved("set_disk", Drive_set_disk(drive, disk))
    /\ seen' = [seen EXCEPT !.moved = "set_disk"]

DiskSetMotorOn ==
    /\ \E motor_is_on \in {FALSE} :
          DiskMoved("set_motor_on", Drive_set_motor_on(drive, motor_is_on))
    /\ seen' = [seen EXCEPT !.moved = "set_motor_on",
                            !.holes = 0, !.strays = 0]

DiskStep ==
    /\ \E offset \in {HeadPosition(1)} : DiskMoved("step", Drive_step(drive, offset))
    /\ seen' = [seen EXCEPT !.moved = "step"]

DiskStepTo ==
    /\ \E offset \in {HeadPosition(1)}, bit \in {0, 1} :
          DiskMoved("step_to", Drive_step_to(drive, offset, bit))
    /\ seen' = [seen EXCEPT !.moved = "step_to", !.fetched = TRUE,
                            !.noise = Drive_setup_track_makes_noise(drive)]

DiskSetHead ==
    /\ \E head \in {1} : DiskMoved("set_head", Drive_set_head(drive, head))
    /\ seen' = [seen EXCEPT !.moved = "set_head"]

DiskBeginWriting ==
    /\ Callable
    /\ ~seen.begun
    /\ \E bit_length \in WriteBitLengths, clamp_to_index_hole \in {FALSE} :
          drive' = Drive_begin_writing(drive, bit_length, clamp_to_index_hole)
    /\ seen' = [seen EXCEPT !.begun = TRUE]
    /\ UNCHANGED platter
    /\ DiskElse

DiskWriteBit ==
    /\ Callable
    /\ ~drive.is_reading_
    /\ drive.write_segment_.data = <<>>
    /\ \E value \in {1} : drive' = Drive_write_bit(drive, value)
    /\ UNCHANGED seen
    /\ UNCHANGED platter
    /\ DiskElse

\* Drive::end_writing(): the track it hands to set_track goes to the disk.
DiskEndWriting ==
    /\ Callable
    /\ \E of_null \in {"nullptr", "empty"} :
          LET ended == Drive_end_writing(drive, of_null)
          IN  /\ drive' = ended.drive
              /\ platter' = IF ended.set_track # NullTrack
                            THEN Disk_set_track_at_position(platter, drive.head_,
                                     drive.head_position_, ended.set_track)
                            ELSE platter
    /\ UNCHANGED seen
    /\ DiskElse

\* Drive::process_next_event() is called on drive d, after an advance by
\* cycles: what has been seen, what is seen then.
Drive_process_next_event_seen(sn, d, cycles) ==
    LET type == d.current_event_.type
        hole == type = IndexHole /\ sn.fetched /\ ~sn.noise
    IN  [sn EXCEPT
            !.fetched = TRUE,
            !.noise = Drive_get_next_event_makes_noise(d),
            !.holes = IF hole /\ @ < 2 THEN @ + 1 ELSE @,
            !.strays = IF ~sn.fetched THEN 1 ELSE @,
            !.since_hole = IF hole THEN 0 ELSE @ + cycles,
            !.kept_from_writer =
                IF ~d.is_reading_ /\ ~Drive_delegates_event(d) THEN @ \cup {type} ELSE @,
            !.given_to_writer =
                IF ~d.is_reading_ /\ Drive_delegates_event(d) THEN @ \cup {type} ELSE @]

\* TimedEventLoop::run_for(cycles) of the drive of m, from where the call run
\* stands to its end; m is the drive and what has been seen, and bit is what its
\* randomiser gave for every bit of the random source.
RECURSIVE TimedEventLoop_run_for_seen(_, _, _)
TimedEventLoop_run_for_seen(m, run, bit) ==
    IF m.drive.failed_assertion # "" THEN m
    ELSE IF TimedEventLoop_run_for_event_due(m.drive, run.remaining_cycles)
    THEN LET step == TimedEventLoop_run_for_to_event(m.drive, run)
             advanced == Drive_advance(step.loop, step.advance)
         IN  Sequenced([drive |-> Drive_process_next_event(advanced, bit),
                        seen |-> Drive_process_next_event_seen(m.seen, advanced,
                                                               step.advance)],
                       LAMBDA processed :
                           TimedEventLoop_run_for_seen(processed, step.run, bit))
    ELSE LET step == TimedEventLoop_run_for_remainder(m.drive, run)
             advanced == IF step.advance >= 0 THEN Drive_advance(step.loop, step.advance)
                                               ELSE step.loop
             counted == Asserted(advanced, step.run.cycles_advanced = step.run.cycles,
                                 "TimedEventLoop.cpp:38")
         IN  [drive |-> Asserted(counted, counted.cycles_until_event_ > 0,
                                 "TimedEventLoop.cpp:39"),
              seen |-> [m.seen EXCEPT !.since_hole =
                            @ + (IF step.advance >= 0 THEN step.advance ELSE 0)]]

\* Drive::run_for(cycles) of the drive of m, with number_of_cycles left to run.
RECURSIVE Drive_run_for_seen(_, _, _)
Drive_run_for_seen(m, number_of_cycles, bit) ==
    IF number_of_cycles = 0 \/ m.drive.failed_assertion # "" THEN m
    ELSE Sequenced(Drive_run_for_step(m.drive, number_of_cycles, 0),
         LAMBDA step :
             Sequenced(TimedEventLoop_run_for_seen(
                           [m EXCEPT !.drive = step.drive],
                           TimedEventLoop_run_for_begin(step.cycles_to_run_for), bit),
             LAMBDA ran :
                 Drive_run_for_seen(ran, number_of_cycles - step.cycles_to_run_for, bit)))

DiskRunFor ==
    /\ Callable
    /\ \E cycles \in 1 .. MaxCycles, bit \in {0} :
          \E ran \in {IF Drive_run_for_runs(drive)
                      THEN Drive_run_for_seen([drive |-> drive, seen |-> seen], cycles, bit)
                      ELSE [drive |-> drive, seen |-> seen]} :
              /\ drive' = ran.drive
              /\ seen' = ran.seen
    /\ UNCHANGED platter
    /\ DiskElse

DiskNext ==
    \/ DiskSetDisk
    \/ DiskSetMotorOn
    \/ DiskStep
    \/ DiskStepTo
    \/ DiskSetHead
    \/ DiskBeginWriting
    \/ DiskWriteBit
    \/ DiskEndWriting
    \/ DiskRunFor

SpecDisk == DiskInit /\ [][DiskNext]_vars

----------------------------------------------------------------------------
(* SpecPair: two Drives, constructed alike but for what their randomisers  *)
(* gave, each with the same disk in and its motor on, and an owner who     *)
(* makes the same calls of both: run_for, a cycle at a time, and set_head. *)
(* The drives' clock makes a rotation twenty cycles, so that a noise pulse *)
(* is two or three cycles long.                                            *)

PairClockRate == 1000000
MaxPairCycles == 30
MaxPairHeads == 2

\* Drive::process_next_event() of drive d fetches an event of a track when its
\* get_next_event() does not make a noise pulse.
Drive_process_next_event_fetches(d) == ~Drive_get_next_event_makes_noise(d)

\* TimedEventLoop::run_for(cycles) of the drive of m, from where the call run
\* stands to its end; m is the drive, the cycle count it is at, and the cycle
\* counts at which it has fetched events of a track.
RECURSIVE TimedEventLoop_run_for_stamped(_, _, _)
TimedEventLoop_run_for_stamped(m, run, bit) ==
    IF m.drive.failed_assertion # "" THEN m
    ELSE IF TimedEventLoop_run_for_event_due(m.drive, run.remaining_cycles)
    THEN LET step == TimedEventLoop_run_for_to_event(m.drive, run)
             advanced == Drive_advance(step.loop, step.advance)
         IN  Sequenced([drive |-> Drive_process_next_event(advanced, bit),
                        at |-> m.at + step.advance,
                        fetched |-> IF Drive_process_next_event_fetches(advanced)
                                    THEN Append(m.fetched, m.at + step.advance)
                                    ELSE m.fetched],
                       LAMBDA processed :
                           TimedEventLoop_run_for_stamped(processed, step.run, bit))
    ELSE LET step == TimedEventLoop_run_for_remainder(m.drive, run)
             advanced == IF step.advance >= 0 THEN Drive_advance(step.loop, step.advance)
                                               ELSE step.loop
             counted == Asserted(advanced, step.run.cycles_advanced = step.run.cycles,
                                 "TimedEventLoop.cpp:38")
         IN  [m EXCEPT !.drive = Asserted(counted, counted.cycles_until_event_ > 0,
                                          "TimedEventLoop.cpp:39"),
                       !.at = @ + (IF step.advance >= 0 THEN step.advance ELSE 0)]

\* Drive::run_for(cycles) of the drive of m, with number_of_cycles left to run.
RECURSIVE Drive_run_for_stamped(_, _, _)
Drive_run_for_stamped(m, number_of_cycles, bit) ==
    IF number_of_cycles = 0 \/ m.drive.failed_assertion # "" THEN m
    ELSE Sequenced(Drive_run_for_step(m.drive, number_of_cycles, 0),
         LAMBDA step :
             Sequenced(TimedEventLoop_run_for_stamped(
                           [m EXCEPT !.drive = step.drive],
                           TimedEventLoop_run_for_begin(step.cycles_to_run_for), bit),
             LAMBDA ran :
                 Drive_run_for_stamped(ran, number_of_cycles - step.cycles_to_run_for, bit)))

PairInit ==
    /\ \E random_a \in {0, 1}, bit_a \in {0, 1}, type \in {IndexHole, FluxTransition} :
          LET Made(random_source) ==
                  Drive_set_motor_on(
                      Drive_set_disk(Drive_new(PairClockRate, DriveRevolutionsPerMinute,
                                               DriveHeads, random_source, type), 1),
                      TRUE)
          IN  pair = [a |-> Made(random_a), b |-> Made(1 - random_a),
                      bit_a |-> bit_a, bit_b |-> 1 - bit_a,
                      now |-> 0, fetched_a |-> <<>>, fetched_b |-> <<>>, heads |-> 0]
    /\ platter = NoPlatter
    /\ seen = NoSeen
    /\ DriveAtRest
    /\ SegAtRest
    /\ LoopAtRest
    /\ CopyAtRest
    /\ HeadAtRest
    /\ EncAtRest
    /\ TrackAtRest
    /\ WriteAtRest
    /\ ObsAtRest
    /\ ClockAtRest
    /\ FlyAtRest
    /\ NotifyAtRest

PairElse ==
    UNCHANGED <<driveVars, segVars, loopVars, copyVars, headVars, encVars, trackVars, writeVars, obsVars, clockVars, flyVars, notifyVars, diskVars>>

PairCallable ==
    /\ pair.a.failed_assertion = ""
    /\ pair.b.failed_assertion = ""

\* run_for(Cycles(1)) is called of both drives.
PairRunFor ==
    /\ PairCallable
    /\ pair.now < MaxPairCycles
    /\ \E cycles \in {1} :
          LET Ran(d, stamps, bit) ==
                  IF Drive_run_for_runs(d)
                  THEN Drive_run_for_stamped([drive |-> d, at |-> pair.now,
                                              fetched |-> stamps], cycles, bit)
                  ELSE [drive |-> d, at |-> pair.now, fetched |-> stamps]
          IN  \E ran_a \in {Ran(pair.a, pair.fetched_a, pair.bit_a)},
                 ran_b \in {Ran(pair.b, pair.fetched_b, pair.bit_b)} :
                  pair' = [pair EXCEPT !.a = ran_a.drive, !.b = ran_b.drive,
                                       !.fetched_a = ran_a.fetched,
                                       !.fetched_b = ran_b.fetched,
                                       !.now = @ + cycles]
    /\ PairElse

\* set_head(head) is called of both drives.
PairSetHead ==
    /\ PairCallable
    /\ pair.heads < MaxPairHeads
    /\ \E head \in {0, 1} :
          /\ head # pair.a.head_
          /\ pair' = [pair EXCEPT !.a = Drive_set_head(pair.a, head),
                                  !.b = Drive_set_head(pair.b, head),
                                  !.heads = @ + 1]
    /\ PairElse

PairNext ==
    \/ PairRunFor
    \/ PairSetHead

SpecPair == PairInit /\ [][PairNext]_vars

\* Every event length handed back to a caller is a genuine unsigned value: the
\* wrapped start of get_next_event() never escapes.
EventLengthInRange ==
    call.name = "get_next_event" => call.event.length.length >= 0

----------------------------------------------------------------------------
(* Claims about PCMSegmentEventSource, checked under SpecSeg.              *)

\* Scanning from reset(): the cumulative time and the type of the first event
\* whose cumulative time exceeds t.  s is the source so far, acc the time so far.
RECURSIVE ScanPast(_, _, _)
ScanPast(s, acc, t) ==
    LET r    == PCMSegmentEventSource_get_next_event(s)
        next == TimeAdd(acc, r.event.length)
    IN  IF TimeGT(next, t) THEN [time |-> next, type |-> r.event.type]
                           ELSE ScanPast(r.src, next, t)

\* The get_next_event() in `call` directly followed a seek_to(t) with t inside the track.
EventAfterSeekInside ==
    /\ call.name = "get_next_event"
    /\ prev.name = "seek_to"
    /\ TimeLT(prev.arg, PCMSegmentEventSource_get_length(source))

\* C1: seek/scan consistency.  For every time t with 0 <= t < N * L, seek_to(t)
\* returning r followed by get_next_event() returning e gives r + e.length equal
\* to the cumulative time, in a scan from reset(), of the first event whose
\* cumulative time exceeds t, and e.type equal to that event's type.
C1_SeekScanConsistency ==
    EventAfterSeekInside =>
        LET ref == ScanPast(PCMSegmentEventSource_reset(source), TimeZero, prev.arg)
        IN  /\ TimeEQ(TimeAdd(prev.time, call.event.length), ref.time)
            /\ call.event.type = ref.type

\* C1's case: a seek into the middle of a track (past bit 0, and not on a bit
\* boundary) whose next event is a flux transition two or more bits further on.
C1_Witness ==
    /\ EventAfterSeekInside
    /\ TimeLT(prev.time, prev.arg)
    /\ TimeGT(prev.time, TimeZero)
    /\ call.event.type = FluxTransition
    /\ TimeGT(call.event.length, source.segment_.length_of_a_bit)

\* The enumeration in progress started at time 0: from construction, reset() or seek_to(0).
StartedAtZero ==
    \/ origin.name \in {"new", "reset"}
    \/ origin.name = "seek_to" /\ origin.arg.length = 0

\* C8: event-sum invariant.  The lengths of the events returned from reset() or
\* seek_to(0) up to and including the first IndexHole sum to exactly
\* N * length_of_a_bit = get_length().
C8_EventSum ==
    (/\ StartedAtZero
     /\ call.name = "get_next_event"
     /\ call.event.type = IndexHole
     /\ holes = 1)
    => TimeEQ(elapsed, PCMSegmentEventSource_get_length(source))

\* C8's case: a full enumeration, begun by seek_to(0), of a segment of two or
\* more bits whose last bit is set, so that the index hole follows a transition.
C8_Witness ==
    /\ origin.name = "seek_to" /\ origin.arg.length = 0
    /\ call.name = "get_next_event"
    /\ call.event.type = IndexHole
    /\ holes = 1
    /\ Size(source) >= 2
    /\ source.segment_.data[Size(source)] = 1
    /\ call.pointer_before = Size(source)

\* C9: exhaustion.  The get_next_event() that runs off the end of the bits
\* returns an IndexHole whose length carries the half bit exactly once, and
\* leaves the source exhausted; every get_next_event() made on an exhausted
\* source (exhausted by that scan, or by seek_to(t) with t >= get_length())
\* returns an IndexHole of length 0, never a FluxTransition.
C9_Exhaustion ==
    LET N    == Size(source)
        L    == source.segment_.length_of_a_bit.length
        half == ShiftRight1(L)
        p    == call.pointer_before
    IN  /\ (call.name = "get_next_event" /\ p > N) =>
                /\ call.event.type = IndexHole
                /\ call.event.length.length = 0
                /\ source.bit_pointer_ > N
        /\ (call.name = "get_next_event" /\ p <= N /\ call.event.type = IndexHole) =>
                /\ call.event.length.length =
                        (N - p) * L + half - (IF p = 0 THEN half ELSE 0)
                /\ source.bit_pointer_ > N
        /\ (call.name = "get_next_event" /\ call.event.type = FluxTransition) =>
                /\ p < N
                /\ source.bit_pointer_ <= N
        /\ (call.name = "seek_to"
                /\ TimeGE(call.arg, PCMSegmentEventSource_get_length(source))) =>
                source.bit_pointer_ > N

\* C9's case: a third IndexHole in a row after scanning a segment to its end.
C9_Witness ==
    /\ call.name = "get_next_event"
    /\ origin.name \in {"new", "reset"}
    /\ holes = 2
    /\ call.pointer_before > Size(source)
    /\ Size(source) >= 1
    /\ call.event.type = IndexHole
    /\ call.event.length.length = 0

----------------------------------------------------------------------------
(* Claims about TimedEventLoop, checked under SpecLoop.                    *)

\* C4: the cycle counts a run_for(n) call passes to advance() sum to n: while
\* the call runs, what it has advanced and what it has left make n, its own
\* count cycles_advanced agrees with what advance() was given, and when it
\* returns both are n (the assertion cycles_advanced == cycles holds).
C4_CycleConservation ==
    /\ telrun.cycles_advanced + telrun.remaining_cycles = telrun.cycles
    /\ telrun.advanced = telrun.cycles_advanced
    /\ telrun.pc = "idle" => telrun.advanced = telrun.cycles

\* A run_for(3) has returned after both firing an event and advancing a remainder.
C4_Witness ==
    /\ telrun.pc = "idle"
    /\ teltime.op = "run_for"
    /\ telrun.cycles = 3
    /\ teltime.fired.valid
    /\ teltime.since_event \in 1 .. 2

\* C5: run_for calls process_next_event() exactly when the cycles advanced
\* since the previous event equal the whole countdown scheduled for this one:
\* the cycles advanced and the countdown left always make the countdown
\* scheduled, an event fires with all of it advanced, and no run_for returns
\* with an event due, however the cycles are split across run_for calls.
C5_EventOnTime ==
    /\ teltime.since_event + tel.cycles_until_event_ = teltime.scheduled
    /\ teltime.fired.valid => teltime.fired.since_event = teltime.fired.scheduled
    /\ (telrun.pc = "idle" /\ teltime.op = "run_for") => tel.cycles_until_event_ > 0

\* An event has fired whose countdown no single run_for could cover.
C5_Witness ==
    /\ teltime.fired.valid
    /\ teltime.fired.scheduled > MaxRun
    /\ teltime.fired.since_event = teltime.fired.scheduled

\* The whole part of [input clock rate] * [sum of the intervals scheduled].
WholeCyclesScheduled ==
    TimeGetInt(TimeMulInt(telsum.intervals, tel.input_clock_rate_))

----------------------------------------------------------------------------
(* Drive (Spec).                                                           *)

\* C2: the ready debounce.  ready_index_count_ is 0, 1 or 2; while the motor is
\* on it is the number of IndexHole events processed since the motor was
\* switched on, counted up to two, so get_is_ready() is false before the second
\* of them and true from it onward; and no step taken with the motor on
\* lowers it.
C2_ReadyDebounce ==
    /\ [](/\ drive.ready_index_count_ \in {0, 1, 2}
          /\ drive.motor_is_on_ =>
                /\ drive.ready_index_count_ = watch.index_holes
                /\ Drive_get_is_ready(drive) <=> watch.index_holes = 2)
    /\ [][(drive.motor_is_on_ /\ drive'.motor_is_on_) =>
              drive'.ready_index_count_ >= drive.ready_index_count_]_vars

\* The motor is on, a second IndexHole event has been processed since it was
\* switched on, the drive has run on after it, and the drive is ready.
C2_Witness ==
    /\ drive.motor_is_on_
    /\ watch.index_holes = 2
    /\ drive.current_event_.type = FluxTransition
    /\ drun.pc = "idle"
    /\ Drive_get_is_ready(drive)

\* C3: with the motor off the drive is not ready: the ready count is 0 from
\* set_motor_on(false) until the motor is switched on again, whatever is called.
C3_MotorOffNotReady ==
    ~drive.motor_is_on_ => drive.ready_index_count_ = 0 /\ ~Drive_get_is_ready(drive)

\* The drive was ready, its motor was switched off, a write has begun and
\* run_for has been called since -- and the drive is not ready.
C3_Witness ==
    /\ ~drive.motor_is_on_
    /\ watch.index_holes = 2
    /\ ~drive.is_reading_
    /\ drun.pc = "return"
    /\ ~Drive_get_is_ready(drive)

\* run_for is about to return with the motor on and a disk present, and the
\* event delegate has been advanced by as many cycles as run_for was given.
AdvancedAsAsked ==
    (drun.pc = "while" /\ drun.number_of_cycles = 0) => watch.advanced = drun.cycles

\* A call of run_for that has not returned has not been stopped either: it
\* still has a step to take.
NotStoppedShort == drun.pc # "idle" => drive.failed_assertion = ""

\* C7: every call of Drive::run_for returns, having advanced the event delegate
\* by the number of cycles it was given if the motor is on and a disk present.
\* The claim is taken by what it rules out: a call that is stopped before it
\* returns, and a call that returns having advanced the delegate by another
\* number of cycles than it was given.
C7_RunForTerminates == NotStoppedShort /\ AdvancedAsAsked

----------------------------------------------------------------------------
(* Claims about copies of an event source, checked under SpecCopy.         *)

\* The events each of the two sources has yet to return.
EventsOfOriginal == EventsReturned(Target(original, segments))
EventsOfCopy == EventsReturned(Target(copy, segments))

\* C11: a copy is an independent deep copy: a write to the copy's bit data
\* through segment() leaves the sequence of events the original returns
\* unchanged, and a write to the original's leaves the copy's unchanged.
C11_CopiesIndependent ==
    [][(copy.segment_ # 0 /\ copycall'.name = "segment") =>
          /\ copycall'.on = "copy" => EventsOfOriginal' = EventsOfOriginal
          /\ copycall'.on = "original" => EventsOfCopy' = EventsOfCopy]_vars

----------------------------------------------------------------------------
(* Claims about the Drive when it does not turn, checked under Spec.       *)

\* C12: whenever the motor is off or no disk is present, which are exactly the
\* states in which preferred_clocking() reports None, a call of run_for is a
\* no-op: it never enters its loop, it returns with every field of the drive
\* as it was, and the event delegate is neither advanced nor handed an event.
C12_RunForNoOpWhenNotClocked ==
    /\ [](/\ Drive_preferred_clocking(drive) = "None" <=>
                (~drive.motor_is_on_ \/ ~drive.has_disk_)
          /\ (drun.pc # "idle" /\ Drive_preferred_clocking(drive) = "None") =>
                /\ drun.pc = "return"
                /\ watch.advanced = 0)
    /\ [][drun.pc = "return" =>
              /\ drun' = NoDriveRun
              /\ drive' = drive
              /\ dloop' = dloop
              /\ watch' = watch]_vars

\* run_for(n), n > 0, was called with a disk in, the motor off, an event pending
\* on the timer and bits waiting to be written; and again with the motor on and
\* no disk.
C12_Witness ==
    /\ drun.pc = "return"
    /\ drun.cycles > 0
    /\ drive.has_disk_
    /\ ~drive.motor_is_on_
    /\ drive.cycles_until_event_ > 0
    /\ drive.cycles_until_bits_written_ # TimeZero

----------------------------------------------------------------------------
(* Claims about the head of the Drive, checked under SpecHead.             *)

\* C14: the head position is never negative, whatever sequence of step(offset)
\* and step_to(position) calls is made, negative arguments included.
C14_HeadPositionNotNegative == drive.head_position_ >= HeadPosition(0)

\* step by a negative offset that would pass track 0 from beyond it, and
\* step_to a negative position, each left the head on track 0.
C14_Witness ==
    /\ headcall.arg < 0
    /\ \/ headcall.name = "step" /\ headcall.before > 0 /\ headcall.before + headcall.arg < 0
       \/ headcall.name = "step_to" /\ headcall.before > 0
    /\ drive.head_position_ = HeadPosition(0)

\* C15: each step(offset) with an observer attached announces exactly one drive
\* event: StepBelowZero if and only if head_position_ + offset would be
\* negative, the position being left at 0 then, and StepNormal otherwise; so a
\* negative step from track 0 announces StepBelowZero and leaves the head there.
C15_StepAnnouncesOnce ==
    headcall.name = "step" =>
        /\ Len(announced) = 1
        /\ announced[1] \in {"StepBelowZero", "StepNormal"}
        /\ announced[1] = "StepBelowZero" <=> headcall.before + headcall.arg < 0
        /\ announced[1] = "StepBelowZero" => drive.head_position_ = HeadPosition(0)
        /\ announced[1] = "StepNormal" =>
              drive.head_position_ = headcall.before + headcall.arg

\* step by a negative offset from track 0 announced StepBelowZero.
C15_Witness ==
    /\ headcall.name = "step"
    /\ headcall.before = HeadPosition(0)
    /\ headcall.arg < 0
    /\ announced = <<"StepBelowZero">>
    /\ drive.head_position_ = HeadPosition(0)

\* C16: head selection is clamped: after set_head(h) for any integer h, negative
\* or beyond the last head, 0 <= head_ < available_heads_.
C16_HeadClamped == 0 <= drive.head_ /\ drive.head_ < drive.available_heads_

----------------------------------------------------------------------------
(* Claims about the MFM encoder, checked under SpecEnc.                    *)

\* C17: the MFM invariant: whatever bytes are passed to add_byte, starting from
\* any previous output short, no two consecutive bits of the stream emitted
\* are both 1, the pair across the boundary between two shorts included (the
\* last bit of the previous short and the first bit add_byte emits after it).
C17_NoTwoConsecutiveOnes ==
    \A index \in 0 .. 16 * Len(encoder.target_) - 2 :
        index + 1 >= 16 * enclog.first =>
            ~(/\ TargetBit(encoder.target_, index) = 1
              /\ TargetBit(encoder.target_, index + 1) = 1)

\* A byte whose top bit is clear was added after a short whose last bit is set,
\* where a clock bit would otherwise open the new short; and another byte
\* after that.
C17_Witness ==
    /\ enclog.first = 1
    /\ enclog.bytes >= 2
    /\ Bit(encoder.target_[1], 0) = 1
    /\ Bit(encoder.target_[2], 14) = 0
    /\ Bit(encoder.target_[2], 15) = 0

\* The track GetTrackWithSectors was asked for: its expected length and the
\* most it keeps, in bits, and the bits the sectors and gaps came to.
ExpectedBits == Arguments(request).expected_track_bytes * 8
MostBits ==
    (Arguments(request).expected_track_bytes
        + (Arguments(request).expected_track_bytes \div 10)) * 8
WrittenBits == 16 * Len(shifter.target_)

\* C19: whatever the sectors and the sector gap length (the default included),
\* the track GetTrackWithSectors builds is B bits long with
\* 8 * E <= B <= 8 * (E + E div 10), E the expected track bytes: 6250 for FM,
\* 12500 for MFM.
C19_TrackLengthBound ==
    built.pc = "done" =>
        /\ Arguments(request).expected_track_bytes
              = (IF request.kind = "FM" THEN 6250 ELSE 12500)
        /\ ExpectedBits <= built.segment.size
        /\ built.segment.size <= MostBits
        /\ Len(built.segment.data) = (built.segment.size + 15) \div 16

\* A track whose sectors and gaps ran over the most kept, cut at a bit that is
\* not the end of a short.
C19_Witness ==
    /\ built.pc = "done"
    /\ request.sectors # <<>>
    /\ WrittenBits > MostBits
    /\ built.segment.size = MostBits
    /\ MostBits % 16 # 0

----------------------------------------------------------------------------
\* Reading a track back: the parser that corresponds to the encoders, over the
\* shorts of the segment.

\* The data byte of an encoded short: its even bits.
DataByte(short) ==
    Bit(short, 14) * 128 + Bit(short, 12) * 64 + Bit(short, 10) * 32 + Bit(short, 8) * 16
        + Bit(short, 6) * 8 + Bit(short, 4) * 4 + Bit(short, 2) * 2 + Bit(short, 0)

\* The CRC of bytes[from + 1 .. to] added to value.
RECURSIVE CRC16_over(_, _, _, _)
CRC16_over(value, bytes, from, to) ==
    IF to <= from THEN value
    ELSE IF to = from + 1 THEN CRC16_add(value, bytes[from + 1])
    ELSE Sequenced(CRC16_over(value, bytes, from, (from + to) \div 2),
                   LAMBDA half : CRC16_over(half, bytes, (from + to) \div 2, to))

\* The address mark that begins at short i, 0 if none does: for MFM three
\* syncs and the mark byte, for FM the mark's own short.
MarkAt(data, i, kind) ==
    IF kind = "MFM"
    THEN IF /\ i + 3 <= Len(data)
            /\ data[i] = MFMSync /\ data[i + 1] = MFMSync /\ data[i + 2] = MFMSync
            /\ DataByte(data[i + 3]) \in {IDAddressByte, DataAddressByte,
                                          DeletedDataAddressByte}
         THEN DataByte(data[i + 3]) ELSE 0
    ELSE IF data[i] = FMIDAddressMark THEN IDAddressByte
         ELSE IF data[i] = FMDataAddressMark THEN DataAddressByte
         ELSE IF data[i] = FMDeletedDataAddressMark THEN DeletedDataAddressByte
         ELSE 0
MarkLength(kind) == IF kind = "MFM" THEN 4 ELSE 1

\* The first short at or after from where one of the marks begins, 0 if none.
NextMark(data, from, kind, marks) ==
    LET found == {i \in from .. Len(data) : MarkAt(data, i, kind) \in marks}
    IN  IF found = {} THEN 0 ELSE CHOOSE i \in found : \A j \in found : i <= j

ReadBytes(data, at, count) == [i \in 1 .. count |-> DataByte(data[at + i - 1])]

\* The CRC after a mark: from the reset value, over the syncs' bytes (MFM) and
\* the mark byte.
CRCAfterMark(kind, mark) ==
    CRC16_add(IF kind = "MFM" THEN MFMPostSyncCRCValue ELSE CRCResetValue, mark)

\* The sectors read from short from on: each ID mark with the six bytes after
\* it, and the data that follows it if a data mark comes before the next ID
\* mark and the track holds all of it.
RECURSIVE ParsedSectors(_, _, _)
ParsedSectors(data, kind, from) ==
    LET id == NextMark(data, from, kind, {IDAddressByte})
        header_at == id + MarkLength(kind)
        header == ReadBytes(data, header_at, 6)
        following == NextMark(data, header_at + 6, kind,
                              {IDAddressByte, DataAddressByte, DeletedDataAddressByte})
        mark == IF following = 0 THEN 0 ELSE MarkAt(data, following, kind)
        declared_length == 128 * 2^header[4]
        data_at == following + MarkLength(kind)
        has_data == /\ mark \in {DataAddressByte, DeletedDataAddressByte}
                    /\ header[4] <= 7
                    /\ data_at + declared_length + 2 - 1 <= Len(data)
        body == ReadBytes(data, data_at, declared_length + 2)
    IN  IF id = 0 \/ header_at + 6 - 1 > Len(data) THEN <<>>
        ELSE <<[address |-> [track |-> header[1], side |-> header[2], sector |-> header[3]],
                size |-> header[4],
                samples |-> IF has_data THEN <<SubSeq(body, 1, declared_length)>> ELSE <<>>,
                has_header_crc_error |->
                    CRC16_over(CRCAfterMark(kind, IDAddressByte), header, 0, 6) # 0,
                has_data_crc_error |->
                    has_data /\ CRC16_over(CRCAfterMark(kind, mark), body, 0,
                                           declared_length + 2) # 0,
                is_deleted |-> has_data /\ mark = DeletedDataAddressByte]>>
             \o ParsedSectors(data, kind,
                              IF has_data THEN data_at + declared_length + 2
                                          ELSE header_at + 6)

\* A sector with its payload, if it has one, zero-padded to 128 << size.
ZeroPadded(sector) ==
    [sector EXCEPT !.samples =
        IF sector.samples = <<>> THEN <<>>
        ELSE IF Len(sector.samples[1]) >= 128 * 2^sector.size THEN <<sector.samples[1]>>
        ELSE <<[i \in 1 .. 128 * 2^sector.size |->
                   IF i <= Len(sector.samples[1]) THEN sector.samples[1][i] ELSE 0]>>,
                   !.is_deleted = sector.samples # <<>> /\ sector.is_deleted]

\* A sector as GetTrackWithSectors writes it: its payload, if it has one, the
\* first 128 << size bytes of samples[0], with zeroes if those are fewer.
AsWritten(sector) ==
    [sector EXCEPT !.samples =
        IF sector.samples = <<>> THEN <<>>
        ELSE <<[i \in 1 .. 128 * 2^sector.size |->
                   IF i <= Len(sector.samples[1]) THEN sector.samples[1][i] ELSE 0]>>,
                   !.is_deleted = sector.samples # <<>> /\ sector.is_deleted]

\* C18, as stated: the sectors encoded by GetMFMTrackWithSectors or
\* GetFMTrackWithSectors, if they fit the track, are read back from its bits
\* with the track, side, sector and size bytes and the payload, zero-padded to
\* 128 << size, they were given; the header CRC and the data CRC verify unless
\* the sector was encoded with has_header_crc_error or has_data_crc_error, and
\* then that CRC does not.
C18_RoundTripZeroPadded ==
    (built.pc = "done" /\ WrittenBits <= MostBits) =>
        ParsedSectors(built.segment.data, request.kind, 1)
            = [i \in 1 .. Len(request.sectors) |-> ZeroPadded(request.sectors[i])]

\* C18, amended: the payload read back is the payload given cut or zero-padded
\* to 128 << size; the rest as stated.
C18_RoundTrip ==
    (built.pc = "done" /\ WrittenBits <= MostBits) =>
        ParsedSectors(built.segment.data, request.kind, 1)
            = [i \in 1 .. Len(request.sectors) |-> AsWritten(request.sectors[i])]

\* Two sectors read back, one of them with a CRC that does not verify and one
\* with a payload that was padded, or cut.
C18_Witness ==
    /\ built.pc = "done"
    /\ WrittenBits <= MostBits
    /\ Len(ParsedSectors(built.segment.data, request.kind, 1)) = 2
    /\ \E i, j \in 1 .. 2 :
          /\ ParsedSectors(built.segment.data, request.kind, 1)[i].has_data_crc_error
          /\ request.sectors[j].samples # <<>>
          /\ Len(request.sectors[j].samples[1]) # 128 * 2^request.sectors[j].size
          /\ Len(ParsedSectors(built.segment.data, request.kind, 1)[j].samples[1])
                = 128 * 2^request.sectors[j].size

----------------------------------------------------------------------------
\* What was on the disk at the address written to, at the resolution written
\* at: the pre-write content.
PreWrite ==
    LET on_disk == Disk_get_track_at_position(drive.disk_, written.head, written.position)
    IN  PCMTrack_resampled_clone(
            IF on_disk.kind = "nullptr" THEN UnformattedTrack_new ELSE on_disk,
            high_resolution_track_rate, "empty")

\* Whether place p of the track, which is a circle, is in the span [write
\* start time, write start time + bits * bit length); and the written bits'
\* places.
InWrittenSpan(p) ==
    InSpan(p, written.start_time, written.segment, high_resolution_track_rate, TRUE)
WrittenFlux ==
    {p % high_resolution_track_rate :
        p \in SegmentFlux(written.start_time, written.segment, high_resolution_track_rate)}

\* C20: after begin_writing, write_bit of a pattern and end_writing the track
\* stored for the current address holds the written bits over the span from
\* the write start time for bits * bit length, and outside the span what the
\* track held before, resampled.
C20_WriteFrame ==
    (written.pc = "ended" /\ written.segment.data # <<>>) =>
        /\ stored.kind = "PCMTrack"
        /\ {p \in stored.flux : InWrittenSpan(p)} = WrittenFlux
        /\ {p \in stored.flux : ~InWrittenSpan(p)} = {p \in PreWrite.flux : ~InWrittenSpan(p)}

----------------------------------------------------------------------------
\* The track add_segment was called on by end_writing: the clone of the track_
\* the drive held.  The place the segment begins at, and the places it is long.
BeforeSegment ==
    PCMTrack_resampled_clone(written.track_, high_resolution_track_rate, "empty")
WrittenFrom == PlaceOf(written.start_time, high_resolution_track_rate)
WrittenPlaces ==
    PlaceOf(TimeMulInt(TimeSimplify(written.segment.length_of_a_bit),
                       Len(written.segment.data)), high_resolution_track_rate)
ClampedOverIndexHole ==
    /\ written.pc = "ended"
    /\ stored.kind = "PCMTrack"
    /\ written.clamp_to_index_hole
    /\ WrittenFrom + WrittenPlaces > high_resolution_track_rate

----------------------------------------------------------------------------
\* C22: noise is synthesised only across long gaps: random_interval_, the time
\* noise pulses are generated for, is set only when the time until the next
\* track event, which is random_interval_ + safe_gain_period then, is at least
\* 15 ms.
C22_NoiseOnlyAcrossLongGaps ==
    [][(~TimeGT(drive.random_interval_, TimeZero) /\ TimeGT(drive'.random_interval_, TimeZero))
          => TimeGE(TimeAdd(drive'.random_interval_, safe_gain_period), Time(15, 1000))]_vars

----------------------------------------------------------------------------
(* Claims about the activity observer, checked under SpecObs.              *)

----------------------------------------------------------------------------
(* Claims about the Drive's assertions, checked under Spec.                *)

\* C24: the assertions of Drive::get_next_event and Drive::setup_track hold in
\* every reachable state: each event fetched has a length from 0 to one rotation
\* that is greater than the duration already passed, and each track is set up at
\* a time that is not negative.
C24_DriveAssertionsHold ==
    drive.failed_assertion \notin {"Drive.cpp:223", "Drive.cpp:224", "Drive.cpp:272"}

----------------------------------------------------------------------------
(* Claims about HalfClockReceiver, checked under SpecClock.                *)

RECURSIVE SumOf(_, _)
SumOf(log, field) ==
    IF log = <<>> THEN 0 ELSE log[1][field] + SumOf(Tail(log), field)

\* C27: after any calls of run_for(HalfCycles) with counts that are not negative,
\* the whole cycles forwarded to T::run_for(Cycles) add up to half the half cycles
\* given, rounded down, and the half cycles held back are 0 or 1: the half cycle
\* left over.
C27_HalfCyclesAccounted ==
    /\ SumOf(receiver.log, "cycles") = SumOf(receiver.log, "half_cycles") \div 2
    /\ receiver.half_cycles_ \in {0, 1}
    /\ receiver.half_cycles_ = SumOf(receiver.log, "half_cycles") % 2

\* Three calls of a single half cycle: the first forwards nothing, the second
\* completes a cycle and forwards it, and the third is held back again.
C27_Witness ==
    /\ Len(receiver.log) = 3
    /\ \A i \in 1 .. 3 : receiver.log[i].half_cycles = 1
    /\ receiver.log[1].cycles = 0
    /\ receiver.log[2].cycles = 1
    /\ receiver.log[3].cycles = 0
    /\ receiver.half_cycles_ = 1

----------------------------------------------------------------------------
(* Claims about the Flywheel, checked under SpecFly.                       *)

\* C28: whatever synchronisation requests were made, get_next_event_in_period
\* sets cycles_advanced to no more than the cycles_to_run_for it was given: to
\* the time until the event it returns, or to cycles_to_run_for with None.
C28_LookAheadBound ==
    flycall.pc = "got" =>
        /\ flycall.cycles_advanced <= flycall.cycles_to_run_for
        /\ flycall.event = "None" => flycall.cycles_advanced = flycall.cycles_to_run_for

----------------------------------------------------------------------------
(* Claims about the timing of the Drive's events, checked under Spec.      *)

\* The cycles of the drive's clock that a length of track takes to pass.
CyclesOf(d, length) ==
    TimeMul(TimeSimplify(TimeMul(Time(d.input_clock_rate_, 1), d.rotational_multiplier_)),
            length)

\* A turn of TimedEventLoop::run_for's loop in which process_next_event()
\* fetches its next event from the track in hand, while reading.
FetchesFromTrack ==
    /\ drun.pc = "TimedEventLoop::run_for"
    /\ drun' = drun
    /\ dloop' # NoRun
    /\ drive' # drive
    /\ drive.track_.kind # "nullptr"
    /\ ~TimeGT(drive.random_interval_, TimeZero)
    /\ drive.is_reading_
    /\ drive'.failed_assertion = ""

\* C29: while reading, an event obtained from the track is delivered to the event
\* delegate when its length says, however long it is: the event is handed over
\* when the timer next fires, so the timer is set, as the event is fetched, to
\* the event's length in cycles, give or take the cycle that the subcycles carry.
C29_DeliveredWhenDue ==
    [][FetchesFromTrack =>
          LET due == TimeGetInt(CyclesOf(drive, drive'.current_event_.length))
          IN  drive'.cycles_until_event_ \in {due - 1, due, due + 1}]_vars

----------------------------------------------------------------------------
(* Claims about writing, checked under SpecNotify.                         *)

\* The cycles that the bits queued take: bits * cycles_per_bit_, rounded up.
CyclesToWrite ==
    LET total == TimeMulInt(drive.cycles_per_bit_, pending.bits)
    IN  TimeGetInt(total) + (IF total.length % total.clock_rate # 0 THEN 1 ELSE 0)

\* C30: once write_bit has queued bits, and the delegate queues no more,
\* process_write_completed() is called exactly once, in the turn of run_for in
\* which the cycles run since the queuing reach bits * cycles_per_bit_ rounded
\* up, and not before; and it is not called again until more bits are written.
C30_WriteCompletedOnce ==
    pending.bits > 0 =>
        /\ pending.notified <= 1
        /\ pending.notified = 1 => pending.at = CyclesToWrite
        /\ pending.notified = 0 => pending.ran < CyclesToWrite

\* Three bits of 3/2 cycles each were queued, the delegate was told once, after
\* the 5 cycles they take, and run_for has run on for cycles after that.
C30_Witness ==
    /\ pending.bits = 3
    /\ pending.notified = 1
    /\ pending.at = 5
    /\ pending.ran > 5
    /\ drive.cycles_per_bit_ = Time(3, 2)

----------------------------------------------------------------------------
(* Claims about the drive and its disk, checked under SpecDisk.            *)

\* The address the head is at.
Drive_address(d) == <<d.head_, d.head_position_>>

\* A step in which a write is completed: end_writing() finds the drive writing
\* and leaves it reading, with no assertion failed.
WriteCompleted ==
    /\ ~drive.is_reading_
    /\ drive'.is_reading_
    /\ drive'.failed_assertion = ""

\* C31: a completed write is what the next read sees.  After an end_writing()
\* that finds the drive writing, with a disk in, the disk has been handed the
\* patched track, a resampled clone that holds the bits written, for the
\* address the head is at, and track_ is null; and the track fetched when
\* track_ is null is the one the disk was handed for the address, if it was
\* handed one.
C31_CompletedWriteIsRead ==
    [][/\ (WriteCompleted /\ drive.has_disk_) =>
            /\ drive'.track_ = NullTrack
            /\ Drive_address(drive) \in DOMAIN platter'
            /\ IsResampledClone(platter'[Drive_address(drive)])
            /\ {p % high_resolution_track_rate :
                    p \in SegmentFlux(drive.write_start_time_, drive.write_segment_,
                                      high_resolution_track_rate)}
                 \subseteq platter'[Drive_address(drive)].flux
       /\ (/\ drive.track_ = NullTrack
           /\ drive'.track_ # NullTrack
           /\ drive'.disk_ = 1
           /\ Drive_address(drive') \in DOMAIN platter) =>
            /\ IsResampledClone(drive'.track_)
            /\ drive'.track_.flux = platter[Drive_address(drive')].flux
            /\ drive'.track_.kind = "PCMTrack"]_vars

\* A bit was written on the first track of head 0, the write was completed, and
\* the track has been fetched again: track_ holds the flux the disk was handed,
\* the bit written among it, and an event of it is the current one.
C31_Witness ==
    /\ drive.failed_assertion = ""
    /\ drive.is_reading_
    /\ drive.disk_ = 1
    /\ Drive_address(drive) \in DOMAIN platter
    /\ drive.track_ # NullTrack
    /\ IsResampledClone(drive.track_)
    /\ drive.track_.flux = platter[Drive_address(drive)].flux
    /\ \E p \in drive.track_.flux :
           p \notin PCMTrack_resampled_clone(PCMTrack_new(<<1, 0, 1, 1>>),
                                             high_resolution_track_rate, "empty").flux
    /\ seen.begun
    /\ drive.write_segment_.data # <<>>

\* Whether drive d's track_, if it has one, is the track its disk holds for the
\* address its head is at: the same flux for a track the disk was handed, the
\* same segment for one it came with, and an UnformattedTrack for none.
Drive_track_is_the_disks(d) ==
    d.track_ # NullTrack =>
        LET on_disk == Drive_get_track(d)
        IN  IF on_disk.kind = "nullptr" THEN d.track_.kind = "UnformattedTrack"
            ELSE /\ d.track_.kind = "PCMTrack"
                 /\ IsResampledClone(d.track_) = IsResampledClone(on_disk)
                 /\ d.track_.source.segment_ = on_disk.source.segment_
                 /\ IsResampledClone(on_disk) => d.track_.flux = on_disk.flux

\* A step that changes the head's position, the head or the disk, or completes
\* a write; and one that step_to makes.
AddressChanged ==
    \/ drive'.head_position_ # drive.head_position_
    \/ drive'.head_ # drive.head_
    \/ (seen.moved = "" /\ seen'.moved = "set_disk")
    \/ WriteCompleted
SteppedTo == seen.moved = "" /\ seen'.moved = "step_to"

\* C32 as stated: a track_ that is not null is the disk's track for the head's
\* address (an UnformattedTrack if it holds none), and every change of head
\* position, head or disk, and every completed write, leaves track_ null.
C32_Original ==
    [][/\ Drive_track_is_the_disks(drive')
       /\ AddressChanged => drive'.track_ = NullTrack]_vars

\* C32: a track_ that is not null is the disk's track for the head's address (an
\* UnformattedTrack if it holds none); every change of head position by step,
\* of head or of disk, and every completed write, leaves track_ null; and a
\* change of head position by step_to leaves track_ holding the track of the
\* new position, which step_to fetches before it returns.
C32_TrackCacheCoherent ==
    [][/\ Drive_track_is_the_disks(drive')
       /\ (AddressChanged /\ ~SteppedTo) => drive'.track_ = NullTrack
       /\ (AddressChanged /\ SteppedTo) =>
            /\ drive'.track_ # NullTrack
            /\ drive'.head_position_ # drive.head_position_]_vars

\* step_to has moved the head to the second track, and track_ is that track.
C32_Witness ==
    /\ seen.moved = "step_to"
    /\ drive.head_position_ = HeadPosition(1)
    /\ drive.track_.kind = "PCMTrack"
    /\ drive.track_.source.segment_.data = <<0, 1, 0, 0>>
    /\ drive.failed_assertion = ""

\* C33: while a write is in progress the event delegate is given no
\* FluxTransition by process_next_event(), and is given every IndexHole.
C33_WriterHearsOnlyIndexHoles ==
    /\ FluxTransition \notin seen.given_to_writer
    /\ IndexHole \notin seen.kept_from_writer

\* While the drive was writing, process_next_event() has come upon a flux
\* transition, which it kept, and upon an index hole, which it gave; and the
\* write is still in progress.
C33_Witness ==
    /\ ~drive.is_reading_
    /\ FluxTransition \in seen.kept_from_writer
    /\ IndexHole \in seen.given_to_writer
    /\ drive.failed_assertion = ""

\* What a call of end_writing() makes of drive d and of the tracks given that
\* the disk holds, whichever way a clone of a null track comes out.
EndWritingOutcomes(d, given) ==
    {LET ended == Drive_end_writing(d, of_null)
     IN  [drive |-> ended.drive,
          platter |-> IF ended.set_track # NullTrack
                      THEN Disk_set_track_at_position(given, d.head_, d.head_position_,
                                                      ended.set_track)
                      ELSE given] : of_null \in {"nullptr", "empty"}}

\* C34: end_writing() called while is_reading_ is true changes nothing, neither
\* track_, patched_track_, cycles_since_index_hole_ or any other field of the
\* drive, nor what the disk holds; so that a second end_writing() leaves what
\* the first one left.
C34_EndWritingIdempotent ==
    /\ drive.is_reading_ =>
          EndWritingOutcomes(drive, platter) = {[drive |-> drive, platter |-> platter]}
    /\ \A once \in EndWritingOutcomes(drive, platter) :
          EndWritingOutcomes(once.drive, once.platter) = {once}

\* A write has been completed by end_writing(), which handed the disk a track
\* and left the drive reading with its track_ null: the state a second
\* end_writing() is called in.  The cycles since the index hole are not zero.
C34_Witness ==
    /\ drive.is_reading_
    /\ seen.begun
    /\ drive.track_ = NullTrack
    /\ Drive_address(drive) \in DOMAIN platter
    /\ drive.cycles_since_index_hole_ > 0
    /\ drive.failed_assertion = ""

\* C38: end_writing() always has a track to patch.  Whenever end_writing() runs
\* on a drive that is writing, track_ is not null, so resampled_clone is never
\* called on a null track and the assertion on its result never fails.
C38_TrackToPatch ==
    [][(~drive.is_reading_ /\ drive'.is_reading_) =>
            /\ drive.track_ # NullTrack
            /\ drive'.failed_assertion # "Drive.cpp:327"]_vars

\* C39: only fetched events are processed.  process_next_event() has handled no
\* event that get_next_event() had not produced before, from the track or as a
\* noise pulse; the first run_for after construction processes none before one
\* is fetched.
C39_OnlyFetchedProcessed == seen.strays = 0

\* C36: noise pulses never advance the ready debounce.  ready_index_count_ has
\* counted nothing but index holes of the track that passed the head since the
\* motor was switched on (and the event that run_for processed before any was
\* fetched, if it did), so that the drive is not ready before the track's index
\* hole has passed twice.
C36_NoiseNeverCountsAsReady ==
    /\ drive.ready_index_count_ <= seen.holes + seen.strays
    /\ Drive_get_is_ready(drive) => seen.holes + seen.strays >= 2

\* C37: the rotational position is tracked faithfully.  cycles_since_index_hole_,
\* of which get_time_into_track() is the fraction of a rotation, is the cycles
\* advanced since an index hole of the track was last processed, and
\* get_time_into_track() lies in [0, 1]; it is there that setup_track() seeks
\* the track it enters.
C37_PositionFaithful ==
    /\ drive.cycles_since_index_hole_ = seen.since_hole
    /\ TimeGE(Drive_get_time_into_track(drive), TimeZero)
    /\ TimeLE(Drive_get_time_into_track(drive), Time(1, 1))

----------------------------------------------------------------------------
(* Claims about two drives, checked under SpecPair.                        *)

\* C35: the random source does not influence rotation timing.  Two drives that
\* differ only in their random sources, given the same calls, fetch the
\* successive events of their tracks at the same cycle counts, to within one
\* cycle.
C35_SameFetchTimes ==
    \A i \in DOMAIN pair.fetched_a \cap DOMAIN pair.fetched_b :
        /\ pair.fetched_a[i] - pair.fetched_b[i] <= 1
        /\ pair.fetched_b[i] - pair.fetched_a[i] <= 1

====
